---- MODULE Spec2Model ----
(***************************************************************************)
(* vulkan-shaders-gen: the build-time generator of the Vulkan backend.     *)
(* It enumerates the catalog of shader compile jobs (process_shaders),     *)
(* emits one compile rule per job into a generated CMakeLists.txt          *)
(* (cmake_lists) and embeds the compiled SPIR-V binaries into a C++        *)
(* header/source pair (write_embed_files).                                 *)
(*                                                                         *)
(* Strings are TLA+ strings: names are built by concatenation exactly as   *)
(* the C++ code builds them, and compared byte by byte.                    *)
(***************************************************************************)
EXTENDS Integers, Sequences, FiniteSets, TLC

(***************************************************************************)
(* String helpers                                                          *)
(***************************************************************************)

\* The characters that occur in job names and type names, in ASCII order.
LowerChars == "abcdefghijklmnopqrstuvwxyz"
UpperChars == "ABCDEFGHIJKLMNOPQRSTUVWXYZ"
DigitChars == "0123456789"

CharAt(s, i) == SubSeq(s, i, i)

\* ASCII code of a one-character string (unsigned char value used by
\* std::string's operator<).
CharCode ==
    [c \in {CharAt(DigitChars, i) : i \in 1..10} |->
        47 + (CHOOSE i \in 1..10 : CharAt(DigitChars, i) = c)]
    @@ [c \in {CharAt(UpperChars, i) : i \in 1..26} |->
        64 + (CHOOSE i \in 1..26 : CharAt(UpperChars, i) = c)]
    @@ [c \in {CharAt(LowerChars, i) : i \in 1..26} |->
        96 + (CHOOSE i \in 1..26 : CharAt(LowerChars, i) = c)]
    @@ ("_" :> 95) @@ ("." :> 46) @@ ("/" :> 47) @@ ("-" :> 45)

\* std::toupper in the "C" locale, one character.
ToUpperChar ==
    [c \in DOMAIN CharCode |->
        IF \E i \in 1..26 : CharAt(LowerChars, i) = c
        THEN CharAt(UpperChars, CHOOSE i \in 1..26 : CharAt(LowerChars, i) = c)
        ELSE c]

RECURSIVE to_uppercase(_)
to_uppercase(input) ==
    IF Len(input) = 0 THEN ""
    ELSE ToUpperChar[Head(input)] \o to_uppercase(Tail(input))

string_starts_with(str, prefix) ==
    IF Len(prefix) > Len(str) THEN FALSE
    ELSE SubSeq(str, 1, Len(prefix)) = prefix

string_ends_with(str, suffix) ==
    IF Len(suffix) > Len(str) THEN FALSE
    ELSE SubSeq(str, Len(str) - Len(suffix) + 1, Len(str)) = suffix

\* std::string::find(sub) != npos
StrContains(s, sub) ==
    \E i \in 1..(Len(s) - Len(sub) + 1) : SubSeq(s, i, i + Len(sub) - 1) = sub

\* Length of the longest common prefix of a and b, found by bisection on
\* prefix equality; lo is a length known to be common, hi one known to be
\* an upper bound.
RECURSIVE CommonPrefix(_, _, _, _)
CommonPrefix(a, b, lo, hi) ==
    IF lo = hi THEN lo
    ELSE LET mid == (lo + hi + 1) \div 2 IN
         IF SubSeq(a, 1, mid) = SubSeq(b, 1, mid)
         THEN CommonPrefix(a, b, mid, hi)
         ELSE CommonPrefix(a, b, lo, mid - 1)

\* std::string::compare: -1, 0 or 1 by lexicographic comparison of the bytes.
StrCmp(a, b) ==
    LET m == IF Len(a) < Len(b) THEN Len(a) ELSE Len(b)
        p == CommonPrefix(a, b, 0, m)
    IN  IF p = m
        THEN (IF Len(a) < Len(b) THEN -1 ELSE IF Len(a) > Len(b) THEN 1 ELSE 0)
        ELSE IF CharCode[CharAt(a, p + 1)] < CharCode[CharAt(b, p + 1)] THEN -1
        ELSE 1

\* std::string operator<
StrLess(a, b) == StrCmp(a, b) < 0

is_quantized_type(type_name) ==
    type_name /= "f32" /\ type_name /= "f16" /\ type_name /= "bf16"

is_legacy_quant_or_k(type_name) ==
    type_name \in {"q4_0", "q4_1", "q5_0", "q5_1", "q8_0", "q4_k", "q5_k"}

is_legacy_quant(type_name) ==
    type_name \in {"q4_0", "q4_1", "q5_0", "q5_1", "q8_0"}

is_k_quant(type_name) == string_ends_with(type_name, "_k")

is_iq_quant(type_name) == string_starts_with(type_name, "iq")

(***************************************************************************)
(* Globals                                                                 *)
(***************************************************************************)

type_names ==
    << "f32", "f16", "q4_0", "q4_1", "q5_0", "q5_1", "q8_0",
       "q2_k", "q3_k", "q4_k", "q5_k", "q6_k",
       "iq1_s", "iq1_m", "iq2_xxs", "iq2_xs", "iq2_s", "iq3_xxs", "iq3_s",
       "iq4_xs", "iq4_nl", "mxfp4", "bf16" >>

\* enum MatMulIdType
MatMulIdType == {"NONE", "DEFAULT", "SUBGROUP"}

input_dir == "vulkan-shaders"
output_dir == "/tmp"

\* std::filesystem::path operator/ for a relative right-hand side.
PathJoin(dir, file) == dir \o "/" \o file

\* An empty std::map<std::string, std::string>.
EmptyMap == [k \in {} |-> ""]

\* A merge_maps that assigns the entries of b over those of a.
merge_maps_later_wins(a, b) == b @@ a

\* merge_maps: result = a; result.insert(b.begin(), b.end()).
\* std::map::insert keeps the element already present.
merge_maps(a, b) == a @@ b

\* A braced initializer list {{k1, v1}, {k2, v2}, ...} is written
\* (k1 :> v1) @@ (k2 :> v2) @@ ...: construction inserts in order.

\* Built with -DGGML_VULKAN_SHADER_DEBUG_INFO or not.
GGML_VULKAN_SHADER_DEBUG_INFO == FALSE

\* The compile-time capability gates (the #if defined(...) conditions).
GateSet ==
    [ COOPMAT : BOOLEAN, COOPMAT2 : BOOLEAN,
      INTEGER_DOT : BOOLEAN, BFLOAT16 : BOOLEAN ]

\* A string_to_spv that leaves out the "_fp32" suffix: the fp16 and the
\* fp32 variant of a shader then get the same name.
string_to_spv_no_fp32(_name, in_fname, defines, fp16, coopmat, coopmat2, f16acc) ==
    LET name == _name \o (IF f16acc THEN "_f16acc" ELSE "")
                      \o (IF coopmat THEN "_cm1" ELSE "")
                      \o (IF coopmat2 THEN "_cm2" ELSE "")
        target_env == IF StrContains(name, "_cm2")
                      THEN "--target-env=vulkan1.3"
                      ELSE "--target-env=vulkan1.2"
        opt_level == IF coopmat \/ StrContains(name, "bf16") THEN "" ELSE "-O"
    IN  [ name |-> name, in_fname |-> in_fname,
          in_path |-> PathJoin(input_dir, in_fname),
          out_path |-> PathJoin(output_dir, name \o ".spv"),
          flags |-> << "-fshader-stage=compute", target_env, opt_level >>,
          defines |-> defines,
          fp16 |-> fp16, coopmat |-> coopmat, coopmat2 |-> coopmat2,
          f16acc |-> f16acc ]

\* A string_to_spv that disables the optimizer for coopmat jobs only.
string_to_spv_opt_bf16(_name, in_fname, defines, fp16, coopmat, coopmat2, f16acc) ==
    LET name == _name \o (IF f16acc THEN "_f16acc" ELSE "")
                      \o (IF coopmat THEN "_cm1" ELSE "")
                      \o (IF coopmat2 THEN "_cm2"
                          ELSE IF fp16 THEN "" ELSE "_fp32")
        target_env == IF StrContains(name, "_cm2")
                      THEN "--target-env=vulkan1.3"
                      ELSE "--target-env=vulkan1.2"
        opt_level == IF coopmat THEN "" ELSE "-O"
    IN  [ name |-> name, in_fname |-> in_fname,
          in_path |-> PathJoin(input_dir, in_fname),
          out_path |-> PathJoin(output_dir, name \o ".spv"),
          flags |-> << "-fshader-stage=compute", target_env, opt_level >>,
          defines |-> defines,
          fp16 |-> fp16, coopmat |-> coopmat, coopmat2 |-> coopmat2,
          f16acc |-> f16acc ]

\* string_to_spv that selects the target environment by searching the name
\* for _cm.
string_to_spv_env_cm(_name, in_fname, defines, fp16, coopmat, coopmat2, f16acc) ==
    LET name == _name \o (IF f16acc THEN "_f16acc" ELSE "")
                      \o (IF coopmat THEN "_cm1" ELSE "")
                      \o (IF coopmat2 THEN "_cm2"
                          ELSE IF fp16 THEN "" ELSE "_fp32")
        out_path == PathJoin(output_dir, name \o ".spv")
        in_path == PathJoin(input_dir, in_fname)
        target_env == IF StrContains(name, "_cm")
                      THEN "--target-env=vulkan1.3"
                      ELSE "--target-env=vulkan1.2"
        opt_level == IF coopmat \/ StrContains(name, "bf16") THEN "" ELSE "-O"
        flags == << "-fshader-stage=compute", target_env, opt_level >>
                 \o (IF GGML_VULKAN_SHADER_DEBUG_INFO THEN << "-g" >> ELSE << >>)
    IN  [ name |-> name, in_fname |-> in_fname, in_path |-> in_path,
          out_path |-> out_path, flags |-> flags, defines |-> defines,
          fp16 |-> fp16, coopmat |-> coopmat, coopmat2 |-> coopmat2,
          f16acc |-> f16acc ]

\* string_to_spv: the job it appends to cmake (add_build_command) and to
\* shader_fnames.  The fields fp16, coopmat, coopmat2 and f16acc record
\* the arguments of the call.
string_to_spv(_name, in_fname, defines, fp16, coopmat, coopmat2, f16acc) ==
    LET name == _name \o (IF f16acc THEN "_f16acc" ELSE "")
                      \o (IF coopmat THEN "_cm1" ELSE "")
                      \o (IF coopmat2 THEN "_cm2"
                          ELSE IF fp16 THEN "" ELSE "_fp32")
        out_path == PathJoin(output_dir, name \o ".spv")
        in_path == PathJoin(input_dir, in_fname)
        target_env == IF StrContains(name, "_cm2")
                      THEN "--target-env=vulkan1.3"
                      ELSE "--target-env=vulkan1.2"
        opt_level == IF coopmat \/ StrContains(name, "bf16") THEN "" ELSE "-O"
        flags == << "-fshader-stage=compute", target_env, opt_level >>
                 \o (IF GGML_VULKAN_SHADER_DEBUG_INFO THEN << "-g" >> ELSE << >>)
    IN  [ name |-> name, in_fname |-> in_fname, in_path |-> in_path,
          out_path |-> out_path, flags |-> flags, defines |-> defines,
          fp16 |-> fp16, coopmat |-> coopmat, coopmat2 |-> coopmat2,
          f16acc |-> f16acc ]

\* The call string_to_spv(_name, in_fname, merge_maps(a, b), ...): the job of
\* string_to_spv, with the two arguments of merge_maps recorded in the
\* fields merge_a and merge_b.
string_to_spv_merged(_name, in_fname, a, b, fp16, coopmat, coopmat2, f16acc) ==
    [merge_a |-> a, merge_b |-> b]
    @@ string_to_spv(_name, in_fname, merge_maps(a, b), fp16, coopmat, coopmat2, f16acc)

\* string_to_spv with the default arguments
\* (fp16 = true, coopmat = false, coopmat2 = false, f16acc = false).
spv(_name, in_fname, defines) ==
    string_to_spv(_name, in_fname, defines, TRUE, FALSE, FALSE, FALSE)

\* The call string_to_spv(_name, in_fname, merge_maps(a, b)) with the
\* default arguments.
spv_merged(_name, in_fname, a, b) ==
    string_to_spv_merged(_name, in_fname, a, b, TRUE, FALSE, FALSE, FALSE)

(***************************************************************************)
(* matmul_shaders                                                          *)
(***************************************************************************)

\* The loads-per-thread of a quantized A type (load_vec_quant).
load_vec_quant(tname) ==
    IF tname \in {"q4_0", "q4_1", "iq1_s", "iq1_m", "iq2_xxs", "iq2_xs", "iq2_s"}
    THEN "8"
    ELSE IF tname \in {"q5_0", "q5_1", "q8_0", "iq3_xxs", "iq3_s", "iq4_nl", "mxfp4"}
    THEN "4"
    ELSE "2"

\* The lambda FLOAT_TYPE of matmul_shaders.
FLOAT_TYPE(t, fp16, coopmat, coopmat2) ==
    IF t = "bf16"
    THEN (IF ~coopmat /\ ~coopmat2 THEN "float" ELSE "bfloat16_t")
    ELSE IF coopmat2 \/ fp16 THEN "float16_t"
    ELSE "float"

\* base_dict of matmul_shaders after the assignments of lines 293-318.
matmul_base_dict(fp16, matmul_id_type, coopmat, coopmat2, f16acc) ==
    ("FLOAT_TYPE_VEC2" :> (IF coopmat2 \/ fp16 THEN "f16vec2" ELSE "vec2"))
    @@ (IF matmul_id_type = "DEFAULT" THEN ("MUL_MAT_ID" :> "1")
        ELSE IF matmul_id_type = "SUBGROUP"
        THEN ("MUL_MAT_ID" :> "1") @@ ("MUL_MAT_ID_USE_SUBGROUPS" :> "1")
        ELSE EmptyMap)
    @@ (IF fp16 THEN ("FLOAT16" :> "1") ELSE EmptyMap)
    @@ ("ACC_TYPE" :> (IF f16acc THEN "float16_t" ELSE "float"))
    @@ (IF f16acc THEN ("ACC_TYPE_MAX" :> "\"float16_t(65504.0)\"") ELSE EmptyMap)
    @@ (IF coopmat THEN ("COOPMAT" :> "1") ELSE EmptyMap)

matmul_shader_name(matmul_id_type) ==
    IF matmul_id_type = "DEFAULT" THEN "matmul_id"
    ELSE IF matmul_id_type = "SUBGROUP" THEN "matmul_id_subgroup"
    ELSE "matmul"

\* The body of the loop over type_names (lines 362-395) for one tname.
matmul_type_jobs(g, tname, fp16, matmul_id_type, coopmat, coopmat2, f16acc) ==
    LET load_vec == IF coopmat2 THEN "1" ELSE IF fp16 THEN "8" ELSE "4"
        aligned_b_type_f32 == IF coopmat2 THEN "float" ELSE IF fp16 THEN "mat2x4" ELSE "vec4"
        aligned_b_type_f16 == IF coopmat2 THEN "float16_t" ELSE IF fp16 THEN "f16mat2x4" ELSE "f16vec4"
        base_dict == matmul_base_dict(fp16, matmul_id_type, coopmat, coopmat2, f16acc)
        shader_name == matmul_shader_name(matmul_id_type)
        source_name == IF coopmat2 THEN "mul_mm_cm2.comp" ELSE "mul_mm.comp"
        FT == FLOAT_TYPE(tname, fp16, coopmat, coopmat2)
        data_a_key == "DATA_A_" \o to_uppercase(tname)
        plain == coopmat2 \/ tname = "f32" \/ tname = "f16" \/ tname = "bf16"
        load_vec_a_unaligned == IF plain THEN "1" ELSE load_vec_quant(tname)
        load_vec_a == IF plain THEN load_vec ELSE load_vec_quant(tname)
    IN
    IF tname = "bf16" THEN << >>
    ELSE
      (IF ~coopmat2 THEN
        << string_to_spv_merged(shader_name \o "_" \o tname \o "_f32", source_name,
             base_dict, ("FLOAT_TYPE" :> FT) @@ (data_a_key :> "1")
               @@ ("LOAD_VEC_A" :> load_vec_a_unaligned) @@ ("B_TYPE" :> "float")
               @@ ("D_TYPE" :> "float"),
             fp16, coopmat, coopmat2, f16acc),
           string_to_spv_merged(shader_name \o "_" \o tname \o "_f32_aligned", source_name,
             base_dict, ("FLOAT_TYPE" :> FT) @@ (data_a_key :> "1")
               @@ ("LOAD_VEC_A" :> load_vec_a) @@ ("LOAD_VEC_B" :> load_vec)
               @@ ("B_TYPE" :> aligned_b_type_f32) @@ ("B_TYPE32" :> aligned_b_type_f32)
               @@ ("D_TYPE" :> "float") @@ ("ALIGNED" :> "1"),
             fp16, coopmat, coopmat2, f16acc) >>
       ELSE << >>)
      \o
      (IF tname /= "f16" /\ tname /= "f32" THEN
        << string_to_spv_merged(shader_name \o "_" \o tname \o "_f16", source_name,
             base_dict, ("FLOAT_TYPE" :> FT) @@ (data_a_key :> "1")
               @@ ("LOAD_VEC_A" :> load_vec_a_unaligned) @@ ("B_TYPE" :> "float16_t")
               @@ ("D_TYPE" :> "float"),
             fp16, coopmat, coopmat2, f16acc),
           string_to_spv_merged(shader_name \o "_" \o tname \o "_f16_aligned", source_name,
             base_dict, ("FLOAT_TYPE" :> FT) @@ (data_a_key :> "1")
               @@ ("LOAD_VEC_A" :> load_vec_a) @@ ("LOAD_VEC_B" :> load_vec)
               @@ ("B_TYPE" :> aligned_b_type_f16) @@ ("B_TYPE32" :> aligned_b_type_f32)
               @@ ("D_TYPE" :> "float") @@ ("ALIGNED" :> "1"),
             fp16, coopmat, coopmat2, f16acc) >>
       ELSE << >>)
      \o
      (IF g.INTEGER_DOT /\ ~coopmat /\ ~coopmat2 /\ matmul_id_type = "NONE"
          /\ is_legacy_quant(tname) THEN
        << string_to_spv_merged(shader_name \o "_" \o tname \o "_q8_1", "mul_mmq.comp",
             base_dict, ("FLOAT_TYPE" :> FT) @@ (data_a_key :> "1")
               @@ ("D_TYPE" :> "float"),
             fp16, coopmat, coopmat2, f16acc) >>
       ELSE << >>)

\* Concatenation of the sequences ss[1], ..., ss[Len(ss)].
RECURSIVE Flatten(_)
Flatten(ss) ==
    IF Len(ss) = 0 THEN << >>
    ELSE IF Len(ss) = 1 THEN ss[1]
    ELSE LET m == Len(ss) \div 2 IN
         Flatten(SubSeq(ss, 1, m)) \o Flatten(SubSeq(ss, m + 1, Len(ss)))

\* Concatenation of f(s[1]), ..., f(s[Len(s)]): a for loop over s whose
\* body appends the jobs f(element).
ForEach(s, f(_)) == Flatten([i \in 1..Len(s) |-> f(s[i])])

matmul_shaders(g, tnames, fp16, matmul_id_type, coopmat, coopmat2, f16acc) ==
    LET load_vec == IF coopmat2 THEN "1" ELSE IF fp16 THEN "8" ELSE "4"
        aligned_b_type_f32 == IF coopmat2 THEN "float" ELSE IF fp16 THEN "mat2x4" ELSE "vec4"
        aligned_b_type_f16 == IF coopmat2 THEN "float16_t" ELSE IF fp16 THEN "f16mat2x4" ELSE "f16vec4"
        base_dict == matmul_base_dict(fp16, matmul_id_type, coopmat, coopmat2, f16acc)
        shader_name == matmul_shader_name(matmul_id_type)
        source_name == IF coopmat2 THEN "mul_mm_cm2.comp" ELSE "mul_mm.comp"
        FT16 == FLOAT_TYPE("f16", fp16, coopmat, coopmat2)
        FTbf == FLOAT_TYPE("bf16", fp16, coopmat, coopmat2)
        \* bf16 block
        bf_load_vec_a_unaligned == "1"
        bf_load_vec_a == IF coopmat2 THEN "1" ELSE "4"
        to_float_type == IF coopmat \/ coopmat2 THEN "uintBitsToBFloat16EXT" ELSE "bf16_to_fp32"
    IN
    \* Shaders with f16 B_TYPE
    << string_to_spv_merged(shader_name \o "_f32_f16", source_name,
         base_dict, ("FLOAT_TYPE" :> FT16) @@ ("DATA_A_F32" :> "1")
           @@ ("B_TYPE" :> "float16_t") @@ ("D_TYPE" :> "float"),
         fp16, coopmat, coopmat2, f16acc),
       string_to_spv_merged(shader_name \o "_f32_f16_aligned", source_name,
         base_dict, ("FLOAT_TYPE" :> FT16) @@ ("DATA_A_F32" :> "1")
           @@ ("LOAD_VEC_A" :> load_vec) @@ ("LOAD_VEC_B" :> load_vec)
           @@ ("B_TYPE" :> aligned_b_type_f16) @@ ("B_TYPE32" :> aligned_b_type_f32)
           @@ ("D_TYPE" :> "float") @@ ("ALIGNED" :> "1"),
         fp16, coopmat, coopmat2, f16acc),
       string_to_spv_merged(shader_name \o "_f16_aligned", source_name,
         base_dict, ("FLOAT_TYPE" :> FT16) @@ ("DATA_A_F16" :> "1")
           @@ ("LOAD_VEC_A" :> load_vec) @@ ("LOAD_VEC_B" :> load_vec)
           @@ ("B_TYPE" :> aligned_b_type_f16) @@ ("B_TYPE32" :> aligned_b_type_f32)
           @@ ("D_TYPE" :> "float") @@ ("ALIGNED" :> "1"),
         fp16, coopmat, coopmat2, f16acc),
       string_to_spv_merged(shader_name \o "_f16", source_name,
         base_dict, ("FLOAT_TYPE" :> FT16) @@ ("DATA_A_F16" :> "1")
           @@ ("B_TYPE" :> "float16_t") @@ ("D_TYPE" :> "float"),
         fp16, coopmat, coopmat2, f16acc) >>
    \o
    \* bf16: without bfloat16 support only the scalar shader is compiled
    (IF g.BFLOAT16 \/ ~(coopmat \/ coopmat2) THEN
      << string_to_spv_merged(shader_name \o "_bf16_aligned", source_name,
           base_dict, ("FLOAT_TYPE" :> FTbf) @@ ("TO_FLOAT_TYPE" :> to_float_type)
             @@ ("DATA_A_BF16" :> "1") @@ ("LOAD_VEC_A" :> bf_load_vec_a)
             @@ ("LOAD_VEC_B" :> "4")
             @@ ("B_TYPE" :> (IF coopmat2 THEN "bfloat16_t" ELSE "u16vec4"))
             @@ ("B_TYPE32" :> "vec4") @@ ("D_TYPE" :> "float") @@ ("B_IS_FLOAT" :> "1")
             @@ ("DATA_B_BF16" :> "1") @@ ("ALIGNED" :> "1"),
           fp16, coopmat, coopmat2, f16acc),
         string_to_spv_merged(shader_name \o "_bf16", source_name,
           base_dict, ("FLOAT_TYPE" :> FTbf) @@ ("TO_FLOAT_TYPE" :> to_float_type)
             @@ ("DATA_A_BF16" :> "1") @@ ("LOAD_VEC_A" :> bf_load_vec_a_unaligned)
             @@ ("B_TYPE" :> (IF coopmat2 THEN "bfloat16_t" ELSE "uint16_t"))
             @@ ("D_TYPE" :> "float") @@ ("B_IS_FLOAT" :> "1") @@ ("DATA_B_BF16" :> "1"),
           fp16, coopmat, coopmat2, f16acc) >>
     ELSE << >>)
    \o
    ForEach(tnames, LAMBDA tname :
        matmul_type_jobs(g, tname, fp16, matmul_id_type, coopmat, coopmat2, f16acc))

\* A matmul loop that makes the cooperative-matrix calls with f16acc =
\* false only.
matmul_id_jobs_no_f16acc_cm(g, tnames, matmul_id_type) ==
    matmul_shaders(g, tnames, FALSE, matmul_id_type, FALSE, FALSE, FALSE)
    \o matmul_shaders(g, tnames, TRUE, matmul_id_type, FALSE, FALSE, FALSE)
    \o matmul_shaders(g, tnames, TRUE, matmul_id_type, FALSE, FALSE, TRUE)
    \o (IF matmul_id_type /= "DEFAULT" THEN
          (IF g.COOPMAT THEN
             matmul_shaders(g, tnames, TRUE, matmul_id_type, TRUE, FALSE, FALSE)
           ELSE << >>)
          \o
          (IF g.COOPMAT2 THEN
             matmul_shaders(g, tnames, TRUE, matmul_id_type, FALSE, TRUE, FALSE)
           ELSE << >>)
        ELSE << >>)

\* The matmul loop of process_shaders (lines 403-425) for one id type.
matmul_id_jobs(g, tnames, matmul_id_type) ==
    matmul_shaders(g, tnames, FALSE, matmul_id_type, FALSE, FALSE, FALSE)
    \o matmul_shaders(g, tnames, TRUE, matmul_id_type, FALSE, FALSE, FALSE)
    \o matmul_shaders(g, tnames, TRUE, matmul_id_type, FALSE, FALSE, TRUE)
    \o (IF matmul_id_type /= "DEFAULT" THEN
          (IF g.COOPMAT THEN
             matmul_shaders(g, tnames, TRUE, matmul_id_type, TRUE, FALSE, FALSE)
             \o matmul_shaders(g, tnames, TRUE, matmul_id_type, TRUE, FALSE, TRUE)
           ELSE << >>)
          \o
          (IF g.COOPMAT2 THEN
             matmul_shaders(g, tnames, TRUE, matmul_id_type, FALSE, TRUE, FALSE)
             \o matmul_shaders(g, tnames, TRUE, matmul_id_type, FALSE, TRUE, TRUE)
           ELSE << >>)
        ELSE << >>)

\* A matmul loop that runs for the id type NONE only and leaves out the
\* last type of the list.
matmul_jobs_skip_last(g, tnames) ==
    matmul_id_jobs(g, SubSeq(tnames, 1, Len(tnames) - 1), "NONE")

\* The three passes of the matmul loop, one per MatMulIdType.
matmul_jobs(g, tnames) ==
    ForEach(<< "NONE", "DEFAULT", "SUBGROUP" >>,
            LAMBDA matmul_id_type : matmul_id_jobs(g, tnames, matmul_id_type))

(***************************************************************************)
(* process_shaders                                                         *)
(***************************************************************************)

\* A base_dict with a half-precision FLOAT_TYPE.
base_dict_f16 == ("FLOAT_TYPE" :> "float16_t")

\* base_dict of process_shaders.
base_dict == ("FLOAT_TYPE" :> "float")

\* fa_base_dict of the flash attention loop.
fa_base_dict(f16acc) ==
    ("ACC_TYPE" :> (IF f16acc THEN "float16_t" ELSE "float"))
    @@ ("ACC_TYPEV4" :> (IF f16acc THEN "f16vec4" ELSE "vec4"))
    @@ (IF f16acc THEN ("ACC_TYPE_MAX" :> "\"float16_t(65504.0)\"") ELSE EmptyMap)
    @@ base_dict

\* The body of the flash attention loops (lines 436-470) for one f16acc
\* and one tname.
flash_attn_type_jobs(g, f16acc, tname) ==
    LET fa == fa_base_dict(f16acc)
        data_a_key == "DATA_A_" \o to_uppercase(tname)
        QD == ("Q_TYPE" :> "float") @@ ("D_TYPE" :> "float")
    IN
    IF tname = "f32" \/ tname = "bf16" THEN << >>
    ELSE
      (IF g.COOPMAT2 THEN
         (IF tname = "f16" THEN
            << string_to_spv_merged("flash_attn_f32_f16_" \o tname, "flash_attn_cm2.comp",
                 fa, QD, TRUE, FALSE, TRUE, f16acc) >>
          ELSE
            << string_to_spv_merged("flash_attn_f32_f16_" \o tname, "flash_attn_cm2.comp",
                 fa, (data_a_key :> "1") @@ QD
                   @@ ("DEQUANTFUNC" :> ("dequantFunc" \o to_uppercase(tname)))
                   @@ ("BLOCK_SIZE" :> ("QUANT_K_" \o to_uppercase(tname))),
                 TRUE, FALSE, TRUE, f16acc) >>)
       ELSE << >>)
      \o
      (IF g.COOPMAT THEN
         (IF tname = "f16" THEN
            << string_to_spv_merged("flash_attn_f32_f16_" \o tname, "flash_attn_cm1.comp",
                 fa, QD @@ ("COOPMAT" :> "1"), TRUE, TRUE, FALSE, f16acc) >>
          ELSE IF tname = "q4_0" \/ tname = "q8_0" THEN
            << string_to_spv_merged("flash_attn_f32_f16_" \o tname, "flash_attn_cm1.comp",
                 fa, (data_a_key :> "1") @@ QD
                   @@ ("BLOCK_SIZE" :> ("QUANT_K_" \o to_uppercase(tname)))
                   @@ ("COOPMAT" :> "1"),
                 TRUE, TRUE, FALSE, f16acc) >>
          ELSE << >>)
       ELSE << >>)
      \o
      (IF tname = "f16" THEN
         << string_to_spv_merged("flash_attn_f32_f16_" \o tname, "flash_attn.comp",
              fa, QD, TRUE, FALSE, FALSE, f16acc) >>
       ELSE IF tname = "q4_0" \/ tname = "q8_0" THEN
         << string_to_spv_merged("flash_attn_f32_f16_" \o tname, "flash_attn.comp",
              fa, (data_a_key :> "1") @@ QD
                @@ ("BLOCK_SIZE" :> ("QUANT_K_" \o to_uppercase(tname))),
              TRUE, FALSE, FALSE, f16acc) >>
       ELSE << >>)

\* Flash attention loops that run for f16acc = true only.
flash_attn_jobs_f16acc_only(g, tnames) ==
    ForEach(tnames, LAMBDA tname : flash_attn_type_jobs(g, TRUE, tname))

\* The flash attention loops of process_shaders (lines 427-471).
flash_attn_jobs(g, tnames) ==
    ForEach(<< FALSE, TRUE >>, LAMBDA f16acc :
        ForEach(tnames, LAMBDA tname : flash_attn_type_jobs(g, f16acc, tname)))

\* The body of the loop over type_names of lines 473-513 for one tname:
\* mul_mat_vec, dequant and get_rows.
per_type_jobs(g, tname) ==
    LET data_a_key == "DATA_A_" \o to_uppercase(tname)
        shader == IF string_ends_with(tname, "_k") \/ string_starts_with(tname, "iq1_")
                     \/ string_starts_with(tname, "iq2_") \/ string_starts_with(tname, "iq3_")
                  THEN "mul_mat_vec_" \o tname \o ".comp"
                  ELSE "mul_mat_vec.comp"
        Bf32 == (data_a_key :> "1") @@ ("B_TYPE" :> "float") @@ ("B_TYPE_VEC2" :> "vec2")
                @@ ("B_TYPE_VEC4" :> "vec4") @@ ("D_TYPE" :> "float")
        Bf16 == (data_a_key :> "1") @@ ("B_TYPE" :> "float16_t") @@ ("B_TYPE_VEC2" :> "f16vec2")
                @@ ("B_TYPE_VEC4" :> "f16vec4") @@ ("D_TYPE" :> "float")
        Q == (data_a_key :> "1") @@ ("D_TYPE" :> "float") @@ ("FLOAT_TYPE" :> "float")
             @@ ("FLOAT_TYPE_VEC2" :> "vec2") @@ ("ACC_TYPE" :> "float")
        rows_shader == IF tname = "f32" \/ tname = "f16" \/ tname = "bf16"
                       THEN "get_rows.comp" ELSE "get_rows_quant.comp"
    IN
    << spv_merged("mul_mat_vec_" \o tname \o "_f32_f32", shader, base_dict, Bf32),
       spv_merged("mul_mat_vec_" \o tname \o "_f16_f32", shader, base_dict, Bf16),
       spv_merged("mul_mat_vec_" \o tname \o "_f32_f32_subgroup", shader,
           base_dict, Bf32 @@ ("USE_SUBGROUP_ADD" :> "1")),
       spv_merged("mul_mat_vec_" \o tname \o "_f16_f32_subgroup", shader,
           base_dict, Bf16 @@ ("USE_SUBGROUP_ADD" :> "1")),
       spv_merged("mul_mat_vec_" \o tname \o "_f32_f32_subgroup_no_shmem", shader,
           base_dict, Bf32 @@ ("USE_SUBGROUP_ADD_NO_SHMEM" :> "1")),
       spv_merged("mul_mat_vec_" \o tname \o "_f16_f32_subgroup_no_shmem", shader,
           base_dict, Bf16 @@ ("USE_SUBGROUP_ADD_NO_SHMEM" :> "1")),
       spv_merged("mul_mat_vec_id_" \o tname \o "_f32", shader,
           base_dict, ("MUL_MAT_ID" :> "1") @@ Bf32) >>
    \o
    \* mul mat vec with integer dot product
    (IF g.INTEGER_DOT /\ is_legacy_quant(tname) THEN
       << spv_merged("mul_mat_vec_" \o tname \o "_q8_1_f32", "mul_mat_vecq.comp",
              base_dict, Q),
          spv_merged("mul_mat_vec_" \o tname \o "_q8_1_f32_subgroup", "mul_mat_vecq.comp",
              base_dict, Q @@ ("USE_SUBGROUP_ADD" :> "1")),
          spv_merged("mul_mat_vec_" \o tname \o "_q8_1_f32_subgroup_no_shmem", "mul_mat_vecq.comp",
              base_dict, Q @@ ("USE_SUBGROUP_ADD_NO_SHMEM" :> "1")) >>
     ELSE << >>)
    \o
    \* Dequant shaders
    (IF tname /= "f16" /\ tname /= "bf16" THEN
       << spv_merged("dequant_" \o tname, "dequant_" \o tname \o ".comp",
              base_dict, (data_a_key :> "1") @@ ("D_TYPE" :> "float16_t")) >>
     ELSE << >>)
    \o
    (IF ~string_ends_with(tname, "_k") THEN
       << (IF tname = "f16" THEN
             spv_merged("get_rows_" \o tname, rows_shader,
                 base_dict, (data_a_key :> "1") @@ ("B_TYPE" :> "int")
                   @@ ("D_TYPE" :> "float16_t") @@ ("OPTIMIZATION_ERROR_WORKAROUND" :> "1"))
           ELSE
             spv_merged("get_rows_" \o tname, rows_shader,
                 base_dict, (data_a_key :> "1") @@ ("B_TYPE" :> "int")
                   @@ ("D_TYPE" :> "float16_t"))),
          spv_merged("get_rows_" \o tname \o "_f32", rows_shader,
              base_dict, (data_a_key :> "1") @@ ("B_TYPE" :> "int")
                @@ ("D_TYPE" :> "float")) >>
     ELSE << >>)

\* Lines 515-540 of process_shaders.
fixed_jobs_1 ==
    << spv("mul_mat_vec_p021_f16_f32_subgroup_add", "mul_mat_vec_p021.comp",
           ("A_TYPE" :> "float16_t") @@ ("A_TYPE_VEC4" :> "f16vec4") @@ ("B_TYPE" :> "float") @@ ("B_TYPE_VEC4" :> "vec4") @@ ("D_TYPE" :> "float") @@ ("USE_SUBGROUP_ADD" :> "1")),
       spv("mul_mat_vec_p021_f16_f32", "mul_mat_vec_p021.comp",
           ("A_TYPE" :> "float16_t") @@ ("A_TYPE_VEC4" :> "f16vec4") @@ ("B_TYPE" :> "float") @@ ("B_TYPE_VEC4" :> "vec4") @@ ("D_TYPE" :> "float")),
       spv("mul_mat_vec_nc_f16_f32", "mul_mat_vec_nc.comp",
           ("A_TYPE" :> "float16_t") @@ ("A_TYPE_VEC4" :> "f16vec4") @@ ("B_TYPE" :> "float") @@ ("B_TYPE_VEC4" :> "vec4") @@ ("D_TYPE" :> "float")),
       spv_merged("norm_f32", "norm.comp",
           base_dict, ("A_TYPE" :> "float") @@ ("D_TYPE" :> "float")),
       spv_merged("group_norm_f32", "group_norm.comp",
           base_dict, ("A_TYPE" :> "float") @@ ("D_TYPE" :> "float")),
       spv_merged("rms_norm_f32", "rms_norm.comp",
           base_dict, ("A_TYPE" :> "float") @@ ("B_TYPE" :> "float") @@ ("D_TYPE" :> "float")),
       spv_merged("rms_norm_partials_f32", "rms_norm_partials.comp",
           base_dict, ("A_TYPE" :> "float") @@ ("B_TYPE" :> "float") @@ ("D_TYPE" :> "float")),
       spv_merged("rms_norm_back_f32", "rms_norm_back.comp",
           base_dict, ("A_TYPE" :> "float") @@ ("B_TYPE" :> "float") @@ ("D_TYPE" :> "float")),
       spv_merged("l2_norm_f32", "l2_norm.comp",
           base_dict, ("A_TYPE" :> "float") @@ ("D_TYPE" :> "float")),
       spv("cpy_f32_f32", "copy.comp",
           ("A_TYPE" :> "float") @@ ("D_TYPE" :> "float")),
       spv("cpy_f32_f16", "copy.comp",
           ("A_TYPE" :> "float") @@ ("D_TYPE" :> "float16_t")),
       spv("cpy_f16_f16", "copy.comp",
           ("A_TYPE" :> "float16_t") @@ ("D_TYPE" :> "float16_t") @@ ("OPTIMIZATION_ERROR_WORKAROUND" :> "1")),
       spv("cpy_f16_f32", "copy.comp",
           ("A_TYPE" :> "float16_t") @@ ("D_TYPE" :> "float") @@ ("OPTIMIZATION_ERROR_WORKAROUND" :> "1")),
       spv("cpy_f32_bf16", "copy.comp",
           ("A_TYPE" :> "float") @@ ("D_TYPE" :> "uint16_t") @@ ("DATA_D_BF16" :> "1")),
       spv("contig_cpy_f32_f32", "contig_copy.comp",
           ("A_TYPE" :> "float") @@ ("D_TYPE" :> "float")),
       spv("contig_cpy_f32_i32", "contig_copy.comp",
           ("A_TYPE" :> "float") @@ ("D_TYPE" :> "int")),
       spv("contig_cpy_i32_f32", "contig_copy.comp",
           ("A_TYPE" :> "int") @@ ("D_TYPE" :> "float")),
       spv("contig_cpy_f32_f16", "contig_copy.comp",
           ("A_TYPE" :> "float") @@ ("D_TYPE" :> "float16_t")),
       spv("contig_cpy_f16_f16", "contig_copy.comp",
           ("A_TYPE" :> "float16_t") @@ ("D_TYPE" :> "float16_t") @@ ("OPTIMIZATION_ERROR_WORKAROUND" :> "1")),
       spv("contig_cpy_f16_f32", "contig_copy.comp",
           ("A_TYPE" :> "float16_t") @@ ("D_TYPE" :> "float") @@ ("OPTIMIZATION_ERROR_WORKAROUND" :> "1")),
       spv("contig_cpy_f32_bf16", "contig_copy.comp",
           ("A_TYPE" :> "float") @@ ("D_TYPE" :> "uint16_t") @@ ("DATA_D_BF16" :> "1")),
       spv("cpy_f32_i32", "copy.comp",
           ("A_TYPE" :> "float") @@ ("D_TYPE" :> "int")),
       spv("cpy_i32_f32", "copy.comp",
           ("A_TYPE" :> "int") @@ ("D_TYPE" :> "float")) >>

\* Lines 578-637 of process_shaders.
fixed_jobs_2 ==
    << spv("sub_f32", "sub.comp",
           ("A_TYPE" :> "float") @@ ("B_TYPE" :> "float") @@ ("D_TYPE" :> "float") @@ ("FLOAT_TYPE" :> "float")),
       spv("acc_f32", "acc.comp",
           ("A_TYPE" :> "float") @@ ("B_TYPE" :> "float") @@ ("D_TYPE" :> "float") @@ ("FLOAT_TYPE" :> "float")),
       spv("split_k_reduce", "mul_mat_split_k_reduce.comp",
           EmptyMap),
       spv("fa_split_k_reduce", "flash_attn_split_k_reduce.comp",
           EmptyMap),
       spv("quantize_q8_1", "quantize_q8_1.comp",
           EmptyMap),
       spv("quantize_q8_1_subgroup", "quantize_q8_1.comp",
           ("USE_SUBGROUPS" :> "1")),
       spv("quantize_q8_1_x4", "quantize_q8_1.comp",
           ("QBLOCK_X4" :> "1")),
       spv("quantize_q8_1_x4_subgroup", "quantize_q8_1.comp",
           ("QBLOCK_X4" :> "1") @@ ("USE_SUBGROUPS" :> "1")),
       spv("mul_f32", "mul.comp",
           ("A_TYPE" :> "float") @@ ("B_TYPE" :> "float") @@ ("D_TYPE" :> "float") @@ ("FLOAT_TYPE" :> "float")),
       spv("div_f32", "div.comp",
           ("A_TYPE" :> "float") @@ ("B_TYPE" :> "float") @@ ("D_TYPE" :> "float") @@ ("FLOAT_TYPE" :> "float")),
       spv("repeat_f32", "repeat.comp",
           ("A_TYPE" :> "float") @@ ("D_TYPE" :> "float")),
       spv("repeat_back_f32", "repeat_back.comp",
           ("A_TYPE" :> "float") @@ ("D_TYPE" :> "float")),
       spv("scale_f32", "scale.comp",
           ("A_TYPE" :> "float") @@ ("D_TYPE" :> "float") @@ ("FLOAT_TYPE" :> "float")),
       spv("sqr_f32", "square.comp",
           ("A_TYPE" :> "float") @@ ("D_TYPE" :> "float") @@ ("FLOAT_TYPE" :> "float")),
       spv("sqrt_f32", "sqrt.comp",
           ("A_TYPE" :> "float") @@ ("D_TYPE" :> "float") @@ ("FLOAT_TYPE" :> "float")),
       spv("sin_f32", "sin.comp",
           ("A_TYPE" :> "float") @@ ("D_TYPE" :> "float") @@ ("FLOAT_TYPE" :> "float")),
       spv("cos_f32", "cos.comp",
           ("A_TYPE" :> "float") @@ ("D_TYPE" :> "float") @@ ("FLOAT_TYPE" :> "float")),
       spv("clamp_f32", "clamp.comp",
           ("A_TYPE" :> "float") @@ ("D_TYPE" :> "float") @@ ("FLOAT_TYPE" :> "float")),
       spv("pad_f32", "pad.comp",
           ("A_TYPE" :> "float") @@ ("D_TYPE" :> "float")),
       spv("concat_f32", "concat.comp",
           ("A_TYPE" :> "float") @@ ("B_TYPE" :> "float") @@ ("D_TYPE" :> "float")),
       spv("concat_f16", "concat.comp",
           ("A_TYPE" :> "float16_t") @@ ("B_TYPE" :> "float16_t") @@ ("D_TYPE" :> "float16_t") @@ ("OPTIMIZATION_ERROR_WORKAROUND" :> "1")),
       spv("concat_i32", "concat.comp",
           ("A_TYPE" :> "int") @@ ("B_TYPE" :> "int") @@ ("D_TYPE" :> "int")),
       spv("upscale_f32", "upscale.comp",
           ("A_TYPE" :> "float") @@ ("B_TYPE" :> "float") @@ ("D_TYPE" :> "float")),
       spv("exp_f16", "exp.comp",
           ("A_TYPE" :> "float16_t") @@ ("D_TYPE" :> "float16_t")),
       spv("exp_f32", "exp.comp",
           ("A_TYPE" :> "float") @@ ("D_TYPE" :> "float")),
       spv("gelu_f16", "gelu.comp",
           ("A_TYPE" :> "float16_t") @@ ("D_TYPE" :> "float16_t")),
       spv("gelu_f32", "gelu.comp",
           ("A_TYPE" :> "float") @@ ("D_TYPE" :> "float")),
       spv("gelu_erf_f16", "gelu_erf.comp",
           ("A_TYPE" :> "float16_t") @@ ("D_TYPE" :> "float16_t")),
       spv("gelu_erf_f32", "gelu_erf.comp",
           ("A_TYPE" :> "float") @@ ("D_TYPE" :> "float")),
       spv("gelu_quick_f16", "gelu_quick.comp",
           ("A_TYPE" :> "float16_t") @@ ("D_TYPE" :> "float16_t")),
       spv("gelu_quick_f32", "gelu_quick.comp",
           ("A_TYPE" :> "float") @@ ("D_TYPE" :> "float")),
       spv("silu_f16", "silu.comp",
           ("A_TYPE" :> "float16_t") @@ ("D_TYPE" :> "float16_t")),
       spv("silu_f32", "silu.comp",
           ("A_TYPE" :> "float") @@ ("D_TYPE" :> "float")),
       spv("relu_f16", "relu.comp",
           ("A_TYPE" :> "float16_t") @@ ("D_TYPE" :> "float16_t")),
       spv("relu_f32", "relu.comp",
           ("A_TYPE" :> "float") @@ ("D_TYPE" :> "float")),
       spv("tanh_f16", "tanh.comp",
           ("A_TYPE" :> "float16_t") @@ ("D_TYPE" :> "float16_t")),
       spv("tanh_f32", "tanh.comp",
           ("A_TYPE" :> "float") @@ ("D_TYPE" :> "float")),
       spv("sigmoid_f16", "sigmoid.comp",
           ("A_TYPE" :> "float16_t") @@ ("D_TYPE" :> "float16_t")),
       spv("sigmoid_f32", "sigmoid.comp",
           ("A_TYPE" :> "float") @@ ("D_TYPE" :> "float")),
       spv("hardsigmoid_f16", "hardsigmoid.comp",
           ("A_TYPE" :> "float16_t") @@ ("D_TYPE" :> "float16_t")),
       spv("hardsigmoid_f32", "hardsigmoid.comp",
           ("A_TYPE" :> "float") @@ ("D_TYPE" :> "float")),
       spv("hardswish_f16", "hardswish.comp",
           ("A_TYPE" :> "float16_t") @@ ("D_TYPE" :> "float16_t")),
       spv("hardswish_f32", "hardswish.comp",
           ("A_TYPE" :> "float") @@ ("D_TYPE" :> "float")) >>

\* Lines 641-652 of process_shaders.
glu_jobs(rte, suffix) ==
    << spv("geglu_f16" \o suffix, "geglu.comp",
           ("A_TYPE" :> "float16_t") @@ ("D_TYPE" :> "float16_t") @@ ("RTE16" :> (IF rte THEN "1" ELSE "0"))),
       spv("geglu_f32" \o suffix, "geglu.comp",
           ("A_TYPE" :> "float") @@ ("D_TYPE" :> "float") @@ ("RTE16" :> (IF rte THEN "1" ELSE "0"))),
       spv("reglu_f16" \o suffix, "reglu.comp",
           ("A_TYPE" :> "float16_t") @@ ("D_TYPE" :> "float16_t") @@ ("RTE16" :> (IF rte THEN "1" ELSE "0"))),
       spv("reglu_f32" \o suffix, "reglu.comp",
           ("A_TYPE" :> "float") @@ ("D_TYPE" :> "float") @@ ("RTE16" :> (IF rte THEN "1" ELSE "0"))),
       spv("swiglu_f16" \o suffix, "swiglu.comp",
           ("A_TYPE" :> "float16_t") @@ ("D_TYPE" :> "float16_t") @@ ("RTE16" :> (IF rte THEN "1" ELSE "0"))),
       spv("swiglu_f32" \o suffix, "swiglu.comp",
           ("A_TYPE" :> "float") @@ ("D_TYPE" :> "float") @@ ("RTE16" :> (IF rte THEN "1" ELSE "0"))),
       spv("swiglu_oai_f16" \o suffix, "swiglu_oai.comp",
           ("A_TYPE" :> "float16_t") @@ ("D_TYPE" :> "float16_t") @@ ("RTE16" :> (IF rte THEN "1" ELSE "0"))),
       spv("swiglu_oai_f32" \o suffix, "swiglu_oai.comp",
           ("A_TYPE" :> "float") @@ ("D_TYPE" :> "float") @@ ("RTE16" :> (IF rte THEN "1" ELSE "0"))),
       spv("geglu_erf_f16" \o suffix, "geglu_erf.comp",
           ("A_TYPE" :> "float16_t") @@ ("D_TYPE" :> "float16_t") @@ ("RTE16" :> (IF rte THEN "1" ELSE "0"))),
       spv("geglu_erf_f32" \o suffix, "geglu_erf.comp",
           ("A_TYPE" :> "float") @@ ("D_TYPE" :> "float") @@ ("RTE16" :> (IF rte THEN "1" ELSE "0"))),
       spv("geglu_quick_f16" \o suffix, "geglu_quick.comp",
           ("A_TYPE" :> "float16_t") @@ ("D_TYPE" :> "float16_t") @@ ("RTE16" :> (IF rte THEN "1" ELSE "0"))),
       spv("geglu_quick_f32" \o suffix, "geglu_quick.comp",
           ("A_TYPE" :> "float") @@ ("D_TYPE" :> "float") @@ ("RTE16" :> (IF rte THEN "1" ELSE "0"))) >>

\* Lines 655-711 of process_shaders.
fixed_jobs_3 ==
    << spv("leaky_relu_f32", "leaky_relu.comp",
           ("A_TYPE" :> "float") @@ ("D_TYPE" :> "float")),
       spv("silu_back_f32", "silu_back.comp",
           ("A_TYPE" :> "float") @@ ("B_TYPE" :> "float") @@ ("D_TYPE" :> "float")),
       spv("diag_mask_inf_f32", "diag_mask_inf.comp",
           ("A_TYPE" :> "float") @@ ("D_TYPE" :> "float")),
       spv_merged("soft_max_f32", "soft_max.comp",
           base_dict, ("A_TYPE" :> "float") @@ ("B_TYPE" :> "float") @@ ("D_TYPE" :> "float")),
       spv_merged("soft_max_f32_f16", "soft_max.comp",
           base_dict, ("A_TYPE" :> "float") @@ ("B_TYPE" :> "float16_t") @@ ("D_TYPE" :> "float")),
       spv_merged("soft_max_back_f32", "soft_max_back.comp",
           base_dict, ("A_TYPE" :> "float") @@ ("B_TYPE" :> "float") @@ ("D_TYPE" :> "float")),
       spv("rope_norm_f32", "rope_norm.comp",
           ("A_TYPE" :> "float") @@ ("D_TYPE" :> "float")),
       spv("rope_norm_f16", "rope_norm.comp",
           ("A_TYPE" :> "float16_t") @@ ("D_TYPE" :> "float16_t")),
       spv("rope_norm_f16_rte", "rope_norm.comp",
           ("A_TYPE" :> "float16_t") @@ ("D_TYPE" :> "float16_t") @@ ("RTE16" :> "1")),
       spv("rope_neox_f32", "rope_neox.comp",
           ("A_TYPE" :> "float") @@ ("D_TYPE" :> "float")),
       spv("rope_neox_f16", "rope_neox.comp",
           ("A_TYPE" :> "float16_t") @@ ("D_TYPE" :> "float16_t")),
       spv("rope_neox_f16_rte", "rope_neox.comp",
           ("A_TYPE" :> "float16_t") @@ ("D_TYPE" :> "float16_t") @@ ("RTE16" :> "1")),
       spv("rope_multi_f32", "rope_multi.comp",
           ("A_TYPE" :> "float") @@ ("D_TYPE" :> "float")),
       spv("rope_multi_f16", "rope_multi.comp",
           ("A_TYPE" :> "float16_t") @@ ("D_TYPE" :> "float16_t")),
       spv("rope_multi_f16_rte", "rope_multi.comp",
           ("A_TYPE" :> "float16_t") @@ ("D_TYPE" :> "float16_t") @@ ("RTE16" :> "1")),
       spv("rope_vision_f32", "rope_vision.comp",
           ("A_TYPE" :> "float") @@ ("D_TYPE" :> "float")),
       spv("rope_vision_f16", "rope_vision.comp",
           ("A_TYPE" :> "float16_t") @@ ("D_TYPE" :> "float16_t")),
       spv("rope_vision_f16_rte", "rope_vision.comp",
           ("A_TYPE" :> "float16_t") @@ ("D_TYPE" :> "float16_t") @@ ("RTE16" :> "1")),
       spv("argsort_f32", "argsort.comp",
           ("A_TYPE" :> "float")),
       spv_merged("argmax_f32", "argmax.comp",
           base_dict, ("A_TYPE" :> "float") @@ ("D_TYPE" :> "int")),
       spv_merged("sum_rows_f32", "sum_rows.comp",
           base_dict, ("A_TYPE" :> "float") @@ ("D_TYPE" :> "float")),
       spv_merged("count_equal_i32", "count_equal.comp",
           base_dict, ("A_TYPE" :> "int") @@ ("B_TYPE" :> "int") @@ ("D_TYPE" :> "int")),
       spv_merged("im2col_f32", "im2col.comp",
           base_dict, ("A_TYPE" :> "float") @@ ("D_TYPE" :> "float")),
       spv_merged("im2col_f32_f16", "im2col.comp",
           base_dict, ("A_TYPE" :> "float") @@ ("D_TYPE" :> "float16_t")),
       spv_merged("im2col_f32_f16_rte", "im2col.comp",
           base_dict, ("A_TYPE" :> "float") @@ ("D_TYPE" :> "float16_t") @@ ("RTE16" :> "1")),
       spv_merged("im2col_3d_f32", "im2col_3d.comp",
           base_dict, ("A_TYPE" :> "float") @@ ("D_TYPE" :> "float")),
       spv_merged("im2col_3d_f32_f16", "im2col_3d.comp",
           base_dict, ("A_TYPE" :> "float") @@ ("D_TYPE" :> "float16_t")),
       spv_merged("im2col_3d_f32_f16_rte", "im2col_3d.comp",
           base_dict, ("A_TYPE" :> "float") @@ ("D_TYPE" :> "float16_t") @@ ("RTE16" :> "1")),
       spv_merged("timestep_embedding_f32", "timestep_embedding.comp",
           base_dict, ("A_TYPE" :> "float") @@ ("D_TYPE" :> "float")),
       spv("conv_transpose_1d_f32", "conv_transpose_1d.comp",
           ("A_TYPE" :> "float") @@ ("B_TYPE" :> "float") @@ ("D_TYPE" :> "float")),
       spv_merged("pool2d_f32", "pool2d.comp",
           base_dict, ("A_TYPE" :> "float") @@ ("D_TYPE" :> "float")),
       spv_merged("rwkv_wkv6_f32", "wkv6.comp",
           base_dict, ("A_TYPE" :> "float")),
       spv_merged("rwkv_wkv7_f32", "wkv7.comp",
           base_dict, ("A_TYPE" :> "float")),
       spv_merged("opt_step_adamw_f32", "opt_step_adamw.comp",
           base_dict, ("A_TYPE" :> "float")),
       spv_merged("opt_step_sgd_f32", "opt_step_sgd.comp",
           base_dict, ("A_TYPE" :> "float")),
       spv("conv2d_f32_unroll", "conv2d_mm.comp",
           ("A_TYPE" :> "float") @@ ("B_TYPE" :> "float") @@ ("D_TYPE" :> "float") @@ ("USE_COLLECTIVES" :> "1") @@ ("UNROLL" :> "[[unroll]]")),
       spv("conv2d_f16_f32_unroll", "conv2d_mm.comp",
           ("A_TYPE" :> "float16_t") @@ ("B_TYPE" :> "float") @@ ("D_TYPE" :> "float") @@ ("USE_COLLECTIVES" :> "1") @@ ("UNROLL" :> "[[unroll]]")),
       spv("conv2d_f32", "conv2d_mm.comp",
           ("A_TYPE" :> "float") @@ ("B_TYPE" :> "float") @@ ("D_TYPE" :> "float") @@ ("USE_COLLECTIVES" :> "1") @@ ("UNROLL" :> "")),
       spv("conv2d_f16_f32", "conv2d_mm.comp",
           ("A_TYPE" :> "float16_t") @@ ("B_TYPE" :> "float") @@ ("D_TYPE" :> "float") @@ ("USE_COLLECTIVES" :> "1") @@ ("UNROLL" :> "")) >>

\* Lines 714-715 of process_shaders.
conv2d_cm2_jobs ==
    << string_to_spv("conv2d_f32", "conv2d_mm.comp",
           ("A_TYPE" :> "float") @@ ("B_TYPE" :> "float") @@ ("D_TYPE" :> "float") @@ ("USE_COLLECTIVES" :> "1") @@ ("UNROLL" :> "[[unroll]]") @@ ("COOPMAT2" :> "1"),
           TRUE, FALSE, TRUE, FALSE),
       string_to_spv("conv2d_f16_f32", "conv2d_mm.comp",
           ("A_TYPE" :> "float16_t") @@ ("B_TYPE" :> "float") @@ ("D_TYPE" :> "float") @@ ("USE_COLLECTIVES" :> "1") @@ ("UNROLL" :> "[[unroll]]") @@ ("COOPMAT2" :> "1"),
           TRUE, FALSE, TRUE, FALSE) >>

\* Lines 718-728 of process_shaders.
fixed_jobs_4 ==
    << spv_merged("conv2d_dw_whcn_f32", "conv2d_dw.comp",
           base_dict, ("A_TYPE" :> "float") @@ ("B_TYPE" :> "float") @@ ("D_TYPE" :> "float") @@ ("WHCN" :> "1")),
       spv_merged("conv2d_dw_cwhn_f32", "conv2d_dw.comp",
           base_dict, ("A_TYPE" :> "float") @@ ("B_TYPE" :> "float") @@ ("D_TYPE" :> "float") @@ ("CWHN" :> "1")),
       spv_merged("conv2d_dw_whcn_f16_f32", "conv2d_dw.comp",
           base_dict, ("A_TYPE" :> "float16_t") @@ ("B_TYPE" :> "float") @@ ("D_TYPE" :> "float") @@ ("WHCN" :> "1")),
       spv_merged("conv2d_dw_cwhn_f16_f32", "conv2d_dw.comp",
           base_dict, ("A_TYPE" :> "float16_t") @@ ("B_TYPE" :> "float") @@ ("D_TYPE" :> "float") @@ ("CWHN" :> "1")),
       spv_merged("roll_f32", "roll.comp",
           base_dict, ("A_TYPE" :> "float") @@ ("D_TYPE" :> "float")),
       spv_merged("add_id_f32", "add_id.comp",
           base_dict, ("A_TYPE" :> "float") @@ ("B_TYPE" :> "float") @@ ("D_TYPE" :> "float")),
       spv("multi_add_f32", "multi_add.comp",
           ("A_TYPE" :> "float") @@ ("B_TYPE" :> "float") @@ ("D_TYPE" :> "float") @@ ("FLOAT_TYPE" :> "float") @@ ("RTE16" :> "1") @@ ("ADD_RMS" :> "0")),
       spv("multi_add_rms_f32", "multi_add.comp",
           ("A_TYPE" :> "float") @@ ("B_TYPE" :> "float") @@ ("D_TYPE" :> "float") @@ ("FLOAT_TYPE" :> "float") @@ ("RTE16" :> "1") @@ ("ADD_RMS" :> "1")) >>

\* The body of the loop of lines 542-546 for one t.
cpy_quant_jobs(t) ==
    << spv("cpy_f32_" \o t, "copy_to_quant.comp",
           (("DATA_A_" \o to_uppercase(t)) :> "1") @@ ("D_TYPE" :> "float")
             @@ ("FLOAT_TYPE" :> "float")),
       spv("cpy_f32_" \o t \o "_rte", "copy_to_quant.comp",
           (("DATA_A_" \o to_uppercase(t)) :> "1") @@ ("D_TYPE" :> "float")
             @@ ("FLOAT_TYPE" :> "float") @@ ("RTE16" :> "1")),
       spv("cpy_" \o t \o "_f32", "copy_from_quant.comp",
           (("DATA_A_" \o to_uppercase(t)) :> "1") @@ ("D_TYPE" :> "float")
             @@ ("FLOAT_TYPE" :> "float")) >>

\* The body of the loop of lines 548-551 for one t.
set_rows_jobs(t) ==
    << spv("set_rows_" \o t, "copy_to_quant.comp",
           ("SET_ROWS" :> "1") @@ (("DATA_A_" \o to_uppercase(t)) :> "1")
             @@ ("B_TYPE" :> "uvec2") @@ ("D_TYPE" :> "float") @@ ("FLOAT_TYPE" :> "float")),
       spv("set_rows_" \o t \o "_rte", "copy_to_quant.comp",
           ("SET_ROWS" :> "1") @@ (("DATA_A_" \o to_uppercase(t)) :> "1")
             @@ ("B_TYPE" :> "uvec2") @@ ("D_TYPE" :> "float") @@ ("FLOAT_TYPE" :> "float")
             @@ ("RTE16" :> "1")) >>

\* The lambdas get_type_str and get_suffix.
get_type_str(f16) == IF f16 THEN "float16_t" ELSE "float"

get_suffix(src0_f16, src1_f16, dst_f16) ==
    (IF src0_f16 THEN "_f16" ELSE "_f32")
    \o (IF src1_f16 THEN "_f16" ELSE "_f32")
    \o (IF dst_f16 THEN "_f16" ELSE "_f32")

\* The body of the five nested loops of lines 563-576.
binary_op_job(op, src0_f16, src1_f16, dst_f16, rte) ==
    LET source == IF op = "add_rms" THEN "add" ELSE op
        name == op \o get_suffix(src0_f16, src1_f16, dst_f16)
                   \o (IF rte THEN "_rte" ELSE "")
        add_rms == IF op = "add_rms" THEN "1" ELSE "0"
    IN  spv(name, source \o ".comp",
            ("A_TYPE" :> get_type_str(src0_f16)) @@ ("B_TYPE" :> get_type_str(src1_f16))
              @@ ("D_TYPE" :> get_type_str(dst_f16)) @@ ("FLOAT_TYPE" :> "float")
              @@ ("RTE16" :> (IF rte THEN "1" ELSE "0")) @@ ("ADD_RMS" :> add_rms))

BoolLoop == << FALSE, TRUE >>

binary_op_jobs ==
    ForEach(<< "add", "sub", "mul", "div", "add_rms" >>, LAMBDA op :
      ForEach(BoolLoop, LAMBDA src0_f16 :
        ForEach(BoolLoop, LAMBDA src1_f16 :
          ForEach(BoolLoop, LAMBDA dst_f16 :
            ForEach(BoolLoop, LAMBDA rte :
              << binary_op_job(op, src0_f16, src1_f16, dst_f16, rte) >>)))))

\* process_shaders: the jobs in the order of the string_to_spv calls, for
\* the type list tnames and the capability gates g.
process_shaders(g, tnames) ==
    matmul_jobs(g, tnames)
    \o flash_attn_jobs(g, tnames)
    \o ForEach(tnames, LAMBDA tname : per_type_jobs(g, tname))
    \o fixed_jobs_1
    \o ForEach(<< "q4_0", "q4_1", "q5_0", "q5_1", "q8_0", "iq4_nl" >>, cpy_quant_jobs)
    \o ForEach(<< "f32", "f16", "bf16", "q4_0", "q4_1", "q5_0", "q5_1", "q8_0", "iq4_nl" >>,
               set_rows_jobs)
    \o binary_op_jobs
    \o fixed_jobs_2
    \o ForEach(BoolLoop, LAMBDA rte : glu_jobs(rte, IF rte THEN "_rte" ELSE ""))
    \o fixed_jobs_3
    \o (IF g.COOPMAT2 THEN conv2d_cm2_jobs ELSE << >>)
    \o fixed_jobs_4

(***************************************************************************)
(* Files                                                                   *)
(***************************************************************************)

GLSLC == "glslc"
target_hpp == "ggml-vulkan-shaders.hpp"
target_cpp == "ggml-vulkan-shaders.cpp"
\* The value of --target-cmake when the option is given.
target_cmake_path == "build/CMakeLists.txt"
target_cmake_parent == "build"

\* A file on disk.  data is the content: the bytes of a binary, or the
\* '\n'-terminated lines of a generated text unit; mtime is the run that
\* last wrote it; writes tells what happens to an std::fstream opened on
\* the path for output: "ok", "open_fails" or "write_fails".
NoFile ==
    [exists |-> FALSE, readable |-> FALSE, data |-> << >>, mtime |-> 0, writes |-> "ok"]
File(data, mtime) ==
    [exists |-> TRUE, readable |-> TRUE, data |-> data, mtime |-> mtime, writes |-> "ok"]
UnreadableFile(data) ==
    [exists |-> TRUE, readable |-> FALSE, data |-> data, mtime |-> 0, writes |-> "ok"]

\* The path f with a failing output stream.
Unwritable(f, how) == [f EXCEPT !.writes = how]

\* A read_binary_file that does not notice a failed fopen or fread.
read_binary_file_unchecked(f) == f.data

\* read_binary_file: the bytes of the file, or nothing when it cannot be
\* opened or read.
read_binary_file(f) ==
    IF ~f.exists THEN << >>
    ELSE IF ~f.readable THEN << >>
    ELSE f.data

\* write_binary_file: the file after the write at time now.  When the
\* stream cannot be opened the function reports it and returns, the path
\* is as it was; when the write fails after the open the file is left
\* truncated (the bytes that reached it are not modelled).
write_binary_file(f, content, now) ==
    IF f.writes = "open_fails" THEN f
    ELSE IF f.writes = "write_fails"
    THEN [exists |-> TRUE, readable |-> (~f.exists \/ f.readable), data |-> << >>,
          mtime |-> now, writes |-> f.writes]
    ELSE File(content, now)

\* The test of write_file_if_changed; memcmp over size() bytes, which
\* compares nothing when the size is 0.
content_differs(existing, content) ==
    Len(existing) /= Len(content)
    \/ \E i \in 1..Len(content) : existing[i] /= content[i]

\* A write_file_if_changed that writes whatever the file holds.
write_file_always(f, content, now) == write_binary_file(f, content, now)

\* write_file_if_changed: the file after the call.
write_file_if_changed(f, content, now) ==
    LET existing == read_binary_file(f) IN
    IF content_differs(existing, content)
    THEN write_binary_file(f, content, now)
    ELSE f

(***************************************************************************)
(* cmake_lists                                                             *)
(***************************************************************************)

\* cmake.out as the sequence of the commands written to it.
add_header(argv) ==
    << [kind |-> "header", argv |-> argv, glslc |-> GLSLC] >>

\* An add_build_command that names the output after the shader source.
add_build_command_in_name(job) ==
    [kind |-> "compile_shader",
     out_path |-> PathJoin(output_dir, job.in_fname \o ".spv")] @@ job

\* add_build_command: the compile_shader(...) rule of a job.  The flag list
\* is job.flags followed by one -D flag per entry of job.defines.
add_build_command(job) == [kind |-> "compile_shader"] @@ job

\* An add_target_embed whose DEPENDS loop starts at the second output.
add_target_embed_skip_first(shaders_gen_executable, out_filepaths) ==
    << [kind |-> "add_custom_command",
        output |-> << target_hpp, target_cpp >>,
        command |-> << shaders_gen_executable, "--glslc", GLSLC,
                       "--input-dir", input_dir, "--output-dir", output_dir,
                       "--target-hpp", target_hpp, "--target-cpp", target_cpp >>,
        depends |-> SubSeq(out_filepaths, 2, Len(out_filepaths))],
       [kind |-> "add_custom_target", name |-> "vulkan-shaders",
        depends |-> << target_hpp, target_cpp >>] >>

\* add_target_embed (lines 222-242): the custom command that runs the
\* generator again, and the aggregate target.
add_target_embed(shaders_gen_executable, out_filepaths) ==
    << [kind |-> "add_custom_command",
        output |-> << target_hpp, target_cpp >>,
        command |-> << shaders_gen_executable, "--glslc", GLSLC,
                       "--input-dir", input_dir, "--output-dir", output_dir,
                       "--target-hpp", target_hpp, "--target-cpp", target_cpp >>,
        depends |-> out_filepaths],
       [kind |-> "add_custom_target", name |-> "vulkan-shaders",
        depends |-> << target_hpp, target_cpp >>] >>

\* An add_target_build_only whose target depends on nothing.
add_target_build_only_none(out_filepaths) ==
    << [kind |-> "add_custom_target", name |-> "vulkan-shaders", depends |-> << >>] >>

add_target_build_only(out_filepaths) ==
    << [kind |-> "add_custom_target", name |-> "vulkan-shaders",
        depends |-> out_filepaths] >>

(***************************************************************************)
(* write_embed_files                                                       *)
(***************************************************************************)

\* A decimal conversion that writes the last digit only.
DecStr_last_digit(n) == CharAt(DigitChars, (n % 10) + 1)

\* operator<< of an unsigned integer in decimal.
RECURSIVE DecStr(_)
DecStr(n) ==
    IF n < 10 THEN CharAt(DigitChars, n + 1)
    ELSE DecStr(n \div 10) \o CharAt(DigitChars, (n % 10) + 1)

HexDigits == "0123456789abcdef"

\* A hexadecimal conversion that writes the low digit only.
HexStr_low_digit(n) == CharAt("0123456789abcdef", (n % 16) + 1)

\* operator<< of an int under std::hex.
RECURSIVE HexStr(_)
HexStr(n) ==
    IF n < 16 THEN CharAt(HexDigits, n + 1)
    ELSE HexStr(n \div 16) \o CharAt(HexDigits, (n % 16) + 1)

\* The lines written by the loop of lines 759-763: "0x..," per byte, a line
\* break after every 12th byte, and the "\n};\n\n" that follows the loop.
\* cur is the text of the unfinished line.
RECURSIVE byte_lines(_, _, _)
byte_lines(data, i, cur) ==
    IF i > Len(data) THEN << cur, "};", "" >>
    ELSE LET t == cur \o "0x" \o HexStr(data[i]) \o "," IN
         IF i % 12 = 0
         THEN << t >> \o byte_lines(data, i + 1, "")
         ELSE byte_lines(data, i + 1, t)

\* std::sort(shader_fnames.begin(), shader_fnames.end()) on pairs
\* (name, path), ordered by operator< of std::pair: by name, then by path.
PairCmp(a, b) ==
    LET c == StrCmp(a[1], b[1]) IN IF c /= 0 THEN c ELSE StrCmp(a[2], b[2])

PairLess(a, b) == PairCmp(a, b) < 0

\* A std::sort that leaves the sequence as it is.
SortPairs_identity(s) == s

\* The ascending permutation of s under PairLess (equal elements stay
\* together), computed by partitioning around the middle element.
RECURSIVE SortPairs(_)
SortPairs(s) ==
    IF Len(s) <= 1 THEN s
    ELSE LET p == s[(Len(s) + 1) \div 2]
             c == [i \in 1..Len(s) |-> << PairCmp(s[i], p), s[i] >>]
             part(k) == LET t == SelectSeq(c, LAMBDA e : e[1] = k)
                        IN  [i \in 1..Len(t) |-> t[i][2]]
         IN  SortPairs(part(-1)) \o part(0) \o SortPairs(part(1))

\* path::filename() of dir/file.
RECURSIVE filename(_)
filename(path) ==
    IF ~StrContains(path, "/") THEN path ELSE filename(Tail(path))

\* The header and source lines of one shader (the body of the loop of
\* lines 744-765); data is what read_binary_file returned for its path.
embed_hdr_lines(name, path, data, no_embed) ==
    IF no_embed
    THEN << "inline constexpr char const * " \o name \o "_data = \""
               \o filename(path) \o "\";",
            "const uint64_t " \o name \o "_len = 0;",
            "" >>
    ELSE IF Len(data) = 0 THEN << >>
    ELSE << "extern const unsigned char " \o name \o "_data[" \o DecStr(Len(data)) \o "];",
            "const uint64_t " \o name \o "_len = " \o DecStr(Len(data)) \o ";",
            "" >>

\* A loop body that defines an array for the stub of a --no-embed run.
embed_src_lines_stub_array(name, data, no_embed) ==
    IF ~no_embed /\ Len(data) = 0 THEN << >>
    ELSE << "const unsigned char " \o name \o "_data[" \o DecStr(Len(data)) \o "] = {" >>
         \o byte_lines(data, 1, "")

embed_src_lines(name, data, no_embed) ==
    IF no_embed \/ Len(data) = 0 THEN << >>
    ELSE << "const unsigned char " \o name \o "_data[" \o DecStr(Len(data)) \o "] = {" >>
         \o byte_lines(data, 1, "")

suffixes == << "_f32", "_f16" >>

\* A table entry that puts "_rte" before the type suffixes.
op_table_entry_rte_first(op, t0, t1, t2, rte) ==
    op \o (IF rte /= 0 THEN "_rte" ELSE "")
       \o suffixes[t0 + 1] \o suffixes[t1 + 1] \o suffixes[t2 + 1]

\* A table entry that names operand B before operand A.
op_table_entry_b_first(op, t0, t1, t2, rte) ==
    op \o suffixes[t1 + 1] \o suffixes[t0 + 1] \o suffixes[t2 + 1]
       \o (IF rte /= 0 THEN "_rte" ELSE "")

\* The name written at index [t0][t1][t2][rte] of an op table.
op_table_entry(op, t0, t1, t2, rte) ==
    op \o suffixes[t0 + 1] \o suffixes[t1 + 1] \o suffixes[t2 + 1]
       \o (IF rte /= 0 THEN "_rte" ELSE "")

\* The initializer written by the four nested loops of lines 776-819;
\* tail is "_data," or "_len,".
op_table_rte(op, t0, t1, t2, rte, tail) ==
    (IF rte = 0 THEN "{" ELSE "")
    \o op_table_entry(op, t0, t1, t2, rte) \o tail
    \o (IF rte = 1 THEN "}, " ELSE "")

op_table_t2(op, t0, t1, t2, tail) ==
    (IF t2 = 0 THEN "{" ELSE "")
    \o op_table_rte(op, t0, t1, t2, 0, tail) \o op_table_rte(op, t0, t1, t2, 1, tail)
    \o (IF t2 = 1 THEN "}, " ELSE "")

op_table_t1(op, t0, t1, tail) ==
    (IF t1 = 0 THEN "{" ELSE "")
    \o op_table_t2(op, t0, t1, 0, tail) \o op_table_t2(op, t0, t1, 1, tail)
    \o (IF t1 = 1 THEN "}, " ELSE "")

op_table_t0(op, t0, tail) ==
    (IF t0 = 0 THEN "{" ELSE "")
    \o op_table_t1(op, t0, 0, tail) \o op_table_t1(op, t0, 1, tail)
    \o (IF t0 = 1 THEN "};" ELSE "")

op_table_init(op, tail) == op_table_t0(op, 0, tail) \o op_table_t0(op, 1, tail)

op_table_hdr_lines(op) ==
    << "extern const void * " \o op \o "_data[2][2][2][2];",
       "extern const uint64_t " \o op \o "_len[2][2][2][2];" >>

op_table_src_lines(op) ==
    << "const void * " \o op \o "_data[2][2][2][2] = " \o op_table_init(op, "_data,"),
       "const uint64_t " \o op \o "_len[2][2][2][2] = " \o op_table_init(op, "_len,") >>

op_table_ops == << "add", "sub", "mul", "div", "add_rms" >>

\* The B types of the dmmv tables without the integer-dot gate.
btypes_ungated(g) == << "f16", "f32", "q8_1" >>

\* The B types of the dmmv tables (lines 824-828).
btypes(g) == << "f16", "f32" >> \o (IF g.INTEGER_DOT THEN << "q8_1" >> ELSE << >>)

dmmv_hdr_lines(tname, btype) ==
    IF btype = "q8_1" /\ ~is_legacy_quant(tname) THEN << >>
    ELSE << "extern const void * arr_dmmv_" \o tname \o "_" \o btype \o "_f32_data[3];",
            "extern const uint64_t arr_dmmv_" \o tname \o "_" \o btype \o "_f32_len[3];" >>

dmmv_src_lines(tname, btype) ==
    LET b == "mul_mat_vec_" \o tname \o "_" \o btype IN
    IF btype = "q8_1" /\ ~is_legacy_quant(tname) THEN << >>
    ELSE << "const void * arr_dmmv_" \o tname \o "_" \o btype \o "_f32_data[3] = {"
               \o b \o "_f32_data, " \o b \o "_f32_subgroup_data, "
               \o b \o "_f32_subgroup_no_shmem_data};",
            "const uint64_t arr_dmmv_" \o tname \o "_" \o btype \o "_f32_len[3] =  {"
               \o b \o "_f32_len,  " \o b \o "_f32_subgroup_len, "
               \o b \o "_f32_subgroup_no_shmem_len};" >>

\* hdr.str() of write_embed_files: fnames is the sorted shader_fnames and
\* read[path] the result of read_binary_file(path).
embed_hdr(g, tnames, fnames, read, no_embed) ==
    << "#include <cstdint>", "" >>
    \o (IF no_embed
        THEN << "#define GGML_VK_SHADER_DIR \"" \o output_dir \o "\"", "" >>
        ELSE << >>)
    \o ForEach(fnames, LAMBDA pair :
         embed_hdr_lines(pair[1], pair[2],
                         IF no_embed THEN << >> ELSE read[pair[2]], no_embed))
    \o ForEach(op_table_ops, op_table_hdr_lines)
    \o ForEach(btypes(g), LAMBDA btype :
         ForEach(tnames, LAMBDA tname : dmmv_hdr_lines(tname, btype)))

\* src.str() of write_embed_files.
embed_src(g, tnames, fnames, read, no_embed) ==
    << "#include \"" \o filename(target_hpp) \o "\"", "" >>
    \o ForEach(fnames, LAMBDA pair :
         embed_src_lines(pair[1], IF no_embed THEN << >> ELSE read[pair[2]], no_embed))
    \o ForEach(op_table_ops, op_table_src_lines)
    \o ForEach(btypes(g), LAMBDA btype :
         ForEach(tnames, LAMBDA tname : dmmv_src_lines(tname, btype)))

(***************************************************************************)
(* The generator process                                                   *)
(***************************************************************************)

\* Bounds of the model.
MaxRuns == 2      \* invocations of the generator with the same arguments
MaxLen == 2       \* length of the contents given to write_file_if_changed
MaxTypes == 4     \* length of the type lists that replace type_names
MaxBytes == 13    \* length of the compiled outputs embedded on their own

VARIABLES
    gates,          \* the capability gates the generator was built with
    types,          \* the global type_names
    args,           \* the parsed command line
    dirs,           \* the directories that exist
    spv_disk,       \* the compiled outputs on disk
    files,          \* the generated units on disk
    files0,         \* files when the current run started
    pc,             \* position of main
    exit_code,      \* the value main returned
    threw,          \* an exception reached the catch block of main
    run,            \* number of the current run
    shader_fnames,  \* the global shader_fnames
    cmake,          \* the global cmake
    arg_content,    \* the content passed to write_file_if_changed
    spv_reads,      \* compiled outputs read_binary_file was called on in this run
    fn_args,        \* the arguments of a function applied on its own
    fn_result       \* what the function returned

vars == << gates, types, args, dirs, spv_disk, files, files0, pc, exit_code, threw,
           run, shader_fnames, cmake, arg_content, spv_reads, fn_args, fn_result >>

UnitPaths == {target_hpp, target_cpp, target_cmake_path}

\* The compiled output whose state on disk is varied; every other output
\* is in the state spv_disk.rest.
ProbeJobs == {"add_f32_f32_f32"}
ProbePaths == {PathJoin(output_dir, n \o ".spv") : n \in ProbeJobs}

\* Contents of compiled outputs: the first bytes of a SPIR-V module, and a
\* binary that is one byte longer than a line of the byte-array literal.
DefaultBytes == << 3, 2, 35, 7 >>
LongBytes == << 3, 2, 35, 7, 0, 0, 1, 0, 11, 0, 13, 0, 255 >>

ProbeStates == {NoFile, UnreadableFile(DefaultBytes), File(<< >>, 0), File(LongBytes, 0)}

SpvFile(path) == IF path \in DOMAIN spv_disk.probe THEN spv_disk.probe[path] ELSE spv_disk.rest

cmake_empty == [out |-> << >>, out_filepaths |-> << >>]

\* argv of the run.
Argv(a) ==
    << "vulkan-shaders-gen" >>
    \o (IF a.target_cmake THEN << "--target-cmake", target_cmake_path >> ELSE << >>)
    \o (IF a.no_embed THEN << "--no-embed" >> ELSE << >>)
    \o (IF a.help THEN << "--help" >> ELSE << >>)

\* A main that calls write_embed_files in every mode.
CallsWriteEmbedFiles_always(a) == TRUE

\* main calls write_embed_files when --target-cmake is absent or --no-embed
\* is given (lines 920-922); write_embed_files reads the compiled outputs
\* unless no_embed (line 750).
CallsWriteEmbedFiles(a) == ~a.target_cmake \/ a.no_embed
ReadsOutputs(a) == CallsWriteEmbedFiles(a) /\ ~a.no_embed

\* process_shaders and std::sort tabulated for the sixteen builds (the
\* merge with the empty function makes the table explicit, so that it is
\* evaluated once).
catalogs == [g \in GateSet |-> process_shaders(g, type_names)] @@ EmptyMap

Fnames(J) == [i \in 1..Len(J) |-> << J[i].name, J[i].out_path >>]

sorted_fnames == [g \in GateSet |-> SortPairs(Fnames(catalogs[g]))] @@ EmptyMap

Catalog(g, tl) == IF tl = type_names THEN catalogs[g] ELSE process_shaders(g, tl)

Sorted(g, fnames) ==
    IF fnames = Fnames(catalogs[g]) THEN sorted_fnames[g] ELSE SortPairs(fnames)

NoGates == [COOPMAT |-> FALSE, COOPMAT2 |-> FALSE, INTEGER_DOT |-> FALSE, BFLOAT16 |-> FALSE]
AllGates == [COOPMAT |-> TRUE, COOPMAT2 |-> TRUE, INTEGER_DOT |-> TRUE, BFLOAT16 |-> TRUE]

\* Every compiled output is on disk.
AllCompiled ==
    [probe |-> [p \in ProbePaths |-> File(LongBytes, 0)], rest |-> File(DefaultBytes, 0)]

\* The state before the first run, but for gates, types and spv_disk.
InitCommon ==
    /\ args \in [target_cmake : BOOLEAN, no_embed : BOOLEAN, help : BOOLEAN]
    /\ dirs \in SUBSET {input_dir, output_dir}
    /\ files = [u \in UnitPaths |-> NoFile]
    /\ files0 = files
    /\ pc = "start"
    /\ exit_code = "none"
    /\ threw = FALSE
    /\ run = 1
    /\ shader_fnames = << >>
    /\ cmake = cmake_empty
    /\ arg_content = << >>
    /\ spv_reads = 0
    /\ fn_args = << >>
    /\ fn_result = << >>

\* The generator of each of the sixteen builds, every output compiled.
Init ==
    /\ gates \in GateSet
    /\ types = type_names
    /\ spv_disk = AllCompiled
    /\ InitCommon

\* The generator built with no capability gate or with all of them; in the
\* runs that call write_embed_files the state of the probed output is
\* varied, and the other outputs are all compiled or all missing.
InitOutputs ==
    /\ gates \in {NoGates, AllGates}
    /\ types = type_names
    /\ InitCommon
    /\ spv_disk \in [probe : [ProbePaths -> ProbeStates],
                      rest : {File(DefaultBytes, 0), NoFile}]
    /\ ~CallsWriteEmbedFiles(args) => spv_disk = AllCompiled

\* The generator with a shorter type list in place of type_names, built
\* with no capability gate or with all of them.
TypeLists == {SubSeq(type_names, 1, k) : k \in 1..MaxTypes}

InitTypes ==
    /\ gates \in {NoGates, AllGates}
    /\ types \in TypeLists
    /\ spv_disk = AllCompiled
    /\ InitCommon

\* A return that reports success whatever happened.
Exit_success(code) ==
    /\ pc' = "done"
    /\ exit_code' = "EXIT_SUCCESS"

\* return code: main ends with the exit code.
Exit(code) ==
    /\ pc' = "done"
    /\ exit_code' = code

\* main up to process_shaders (lines 852-916): option checks, the
\* directories, and the header of the build graph.  create_directories
\* either creates the directory or throws.
Main_Begin ==
    /\ pc = "start"
    /\ IF args.help
       THEN Exit("EXIT_SUCCESS") /\ UNCHANGED << dirs, cmake, threw >>
       ELSE IF args.no_embed /\ ~args.target_cmake
       THEN Exit("EXIT_FAILURE") /\ UNCHANGED << dirs, cmake, threw >>
       ELSE IF input_dir \notin dirs
       THEN Exit("EXIT_FAILURE") /\ UNCHANGED << dirs, cmake, threw >>
       ELSE \E out_ok \in BOOLEAN, parent_ok \in BOOLEAN :
            LET need_out == output_dir \notin dirs
                need_parent == args.target_cmake /\ target_cmake_parent \notin dirs
                dirs1 == IF need_out /\ out_ok THEN dirs \cup {output_dir} ELSE dirs
                dirs2 == IF need_parent /\ parent_ok
                         THEN dirs1 \cup {target_cmake_parent} ELSE dirs1
            IN  IF need_out /\ ~out_ok
                THEN /\ Exit("EXIT_FAILURE") /\ threw' = TRUE
                     /\ UNCHANGED << dirs, cmake >>
                ELSE IF need_parent /\ ~parent_ok
                THEN /\ Exit("EXIT_FAILURE") /\ threw' = TRUE
                     /\ dirs' = dirs1 /\ UNCHANGED cmake
                ELSE /\ dirs' = dirs2
                     /\ cmake' = IF args.target_cmake
                                 THEN [cmake EXCEPT !.out = @ \o add_header(Argv(args))]
                                 ELSE cmake
                     /\ pc' = "process"
                     /\ UNCHANGED << exit_code, threw >>
    /\ UNCHANGED << gates, types, args, spv_disk, files, files0, run, shader_fnames,
                    arg_content, spv_reads, fn_args, fn_result >>

\* process_shaders (line 918): every string_to_spv call appends a rule to
\* cmake and a pair to shader_fnames (lines 284-285).
ProcessShaders ==
    /\ pc = "process"
    /\ \E J \in {Catalog(gates, types)} :
       /\ cmake' = [out |-> cmake.out \o [i \in 1..Len(J) |-> add_build_command(J[i])],
                    out_filepaths |-> cmake.out_filepaths
                                      \o [i \in 1..Len(J) |-> J[i].out_path]]
       /\ shader_fnames' = shader_fnames \o Fnames(J)
    /\ pc' = IF CallsWriteEmbedFiles(args) THEN "embed" ELSE "finish"
    /\ UNCHANGED << gates, types, args, dirs, spv_disk, files, files0, exit_code, threw,
                    run, arg_content, spv_reads, fn_args, fn_result >>

\* A write_embed_files that ends the run with EXIT_FAILURE, without writing
\* the definitions unit, when the declarations unit cannot be written.
WriteEmbedFiles_stops_on_failure ==
    /\ pc = "embed"
    /\ \E sorted \in {Sorted(gates, shader_fnames)} :
       LET read == [path \in {sorted[i][2] : i \in 1..Len(sorted)} |->
                       read_binary_file(SpvFile(path))] IN
       \E hdr \in {embed_hdr(gates, types, sorted, read, args.no_embed)},
          src \in {embed_src(gates, types, sorted, read, args.no_embed)} :
           /\ shader_fnames' = sorted
           /\ files' = [files EXCEPT
                  ![target_hpp] = write_file_if_changed(@, hdr, run),
                  ![target_cpp] = IF files[target_hpp].writes /= "ok" THEN @
                                  ELSE IF args.no_embed
                                  THEN write_file_if_changed(@, src, run)
                                  ELSE write_binary_file(@, src, run)]
           /\ spv_reads' = IF args.no_embed THEN 0 ELSE Len(sorted)
    /\ pc' = IF files[target_hpp].writes /= "ok" THEN "done" ELSE "finish"
    /\ exit_code' = IF files[target_hpp].writes /= "ok" THEN "EXIT_FAILURE" ELSE exit_code
    /\ UNCHANGED << gates, types, args, dirs, spv_disk, files0, threw, run,
                    cmake, arg_content, fn_args, fn_result >>

\* write_embed_files (lines 920-922, 732-848).
WriteEmbedFiles ==
    /\ pc = "embed"
    /\ \E sorted \in {Sorted(gates, shader_fnames)} :
       LET read == [path \in {sorted[i][2] : i \in 1..Len(sorted)} |->
                       read_binary_file(SpvFile(path))] IN
       \E hdr \in {embed_hdr(gates, types, sorted, read, args.no_embed)},
          src \in {embed_src(gates, types, sorted, read, args.no_embed)} :
           /\ shader_fnames' = sorted
           /\ files' = [files EXCEPT
                  ![target_hpp] = write_file_if_changed(@, hdr, run),
                  ![target_cpp] = IF args.no_embed
                                  THEN write_file_if_changed(@, src, run)
                                  ELSE write_binary_file(@, src, run)]
           /\ spv_reads' = IF args.no_embed THEN 0 ELSE Len(sorted)
    /\ pc' = "finish"
    /\ UNCHANGED << gates, types, args, dirs, spv_disk, files0, exit_code, threw, run,
                    cmake, arg_content, fn_args, fn_result >>

\* The end of main (lines 924-938): the aggregate target and the write of
\* the build graph.
Main_End ==
    /\ pc = "finish"
    /\ IF args.target_cmake
       THEN \E out \in {cmake.out
                         \o (IF args.no_embed
                             THEN add_target_build_only(cmake.out_filepaths)
                             ELSE add_target_embed(Argv(args)[1], cmake.out_filepaths))} :
                /\ cmake' = [cmake EXCEPT !.out = out]
                /\ files' = [files EXCEPT ![target_cmake_path] =
                                write_file_if_changed(@, out, run)]
       ELSE UNCHANGED << cmake, files >>
    /\ Exit("EXIT_SUCCESS")
    /\ UNCHANGED << gates, types, args, dirs, spv_disk, files0, threw, run,
                    shader_fnames, arg_content, spv_reads, fn_args, fn_result >>

\* The generator is invoked again with the same arguments; the globals of
\* the process start afresh, the disk is as the previous run left it.
Rerun ==
    /\ pc = "done"
    /\ run < MaxRuns
    /\ run' = run + 1
    /\ pc' = "start"
    /\ exit_code' = "none"
    /\ threw' = FALSE
    /\ shader_fnames' = << >>
    /\ cmake' = cmake_empty
    /\ files0' = files
    /\ spv_reads' = 0
    /\ UNCHANGED << gates, types, args, dirs, spv_disk, files, arg_content, fn_args,
                    fn_result >>

Next == Main_Begin \/ ProcessShaders \/ WriteEmbedFiles \/ Main_End \/ Rerun

Spec == Init /\ [][Next]_vars

SpecOutputs == InitOutputs /\ [][Next]_vars

SpecTypes == InitTypes /\ [][Next]_vars

(***************************************************************************)
(* write_file_if_changed on its own                                        *)
(***************************************************************************)

\* The byte strings of length at most MaxLen over two byte values.
RECURSIVE Contents(_)
Contents(n) ==
    IF n = 0 THEN {<< >>}
    ELSE Contents(n - 1) \cup {<< b >> \o c : b \in {0, 1}, c \in {d \in Contents(n - 1) : Len(d) = n - 1}}

\* The states of the path before the call: missing, present but not
\* readable, or present with some content.
WriteFiles ==
    {NoFile} \cup {UnreadableFile(d) : d \in Contents(MaxLen)}
             \cup {File(d, 0) : d \in Contents(MaxLen)}

InitWrite ==
    /\ gates = NoGates
    /\ types = type_names
    /\ args = [target_cmake |-> FALSE, no_embed |-> FALSE, help |-> FALSE]
    /\ dirs = {input_dir, output_dir}
    /\ spv_disk = [probe |-> [p \in ProbePaths |-> NoFile], rest |-> NoFile]
    /\ \E f \in WriteFiles :
          files = [u \in UnitPaths |-> IF u = target_hpp THEN f ELSE NoFile]
    /\ files0 = files
    /\ pc = "write"
    /\ exit_code = "none"
    /\ threw = FALSE
    /\ run = 1
    /\ shader_fnames = << >>
    /\ cmake = cmake_empty
    /\ arg_content \in Contents(MaxLen)
    /\ spv_reads = 0
    /\ fn_args = << >>
    /\ fn_result = << >>

\* write_file_if_changed(target_hpp, arg_content) (lines 171-176).
WriteFileIfChanged ==
    /\ pc = "write"
    /\ files' = [files EXCEPT ![target_hpp] = write_file_if_changed(@, arg_content, run)]
    /\ pc' = "written"
    /\ UNCHANGED << gates, types, args, dirs, spv_disk, files0, exit_code, threw, run,
                    shader_fnames, cmake, arg_content, spv_reads, fn_args, fn_result >>

NextWrite == WriteFileIfChanged

SpecWrite == InitWrite /\ [][NextWrite]_vars

(***************************************************************************)
(* The loop body of write_embed_files on its own                           *)
(***************************************************************************)

\* The byte sequences of length 1..n over a one-digit and a two-digit byte.
RECURSIVE ByteSeqs(_)
ByteSeqs(n) ==
    IF n = 1 THEN {<< 9 >>, << 160 >>}
    ELSE ByteSeqs(n - 1)
         \cup {<< b >> \o c : b \in {9, 160}, c \in {d \in ByteSeqs(n - 1) : Len(d) = n - 1}}

\* The contents of the compiled output: every single byte, the sequences
\* of ByteSeqs, and the empty file.
ArtifactBytes == {<< >>} \cup {<< b >> : b \in 0..255} \cup ByteSeqs(MaxBytes)

InitArtifact ==
    /\ gates = NoGates
    /\ types = type_names
    /\ args = [target_cmake |-> FALSE, no_embed |-> FALSE, help |-> FALSE]
    /\ dirs = {input_dir, output_dir}
    /\ spv_disk = AllCompiled
    /\ files = [u \in UnitPaths |-> NoFile]
    /\ files0 = files
    /\ pc = "artifact"
    /\ exit_code = "none"
    /\ threw = FALSE
    /\ run = 1
    /\ shader_fnames = << >>
    /\ cmake = cmake_empty
    /\ arg_content = << >>
    /\ spv_reads = 0
    /\ fn_args \in [name : ProbeJobs, file : {File(d, 0) : d \in ArtifactBytes}]
    /\ fn_result = << >>

\* One iteration of the loop over shader_fnames in an embedding run
\* (lines 744-765): what it appends to hdr and to src.
EmbedArtifact ==
    /\ pc = "artifact"
    /\ LET name == fn_args.name
           path == PathJoin(output_dir, name \o ".spv")
           data == read_binary_file(fn_args.file)
       IN  fn_result' = [hdr |-> embed_hdr_lines(name, path, data, FALSE),
                         src |-> embed_src_lines(name, data, FALSE)]
    /\ pc' = "embedded"
    /\ UNCHANGED << gates, types, args, dirs, spv_disk, files, files0, exit_code, threw,
                    run, shader_fnames, cmake, arg_content, spv_reads, fn_args >>

NextArtifact == EmbedArtifact

SpecArtifact == InitArtifact /\ [][NextArtifact]_vars

(***************************************************************************)
(* merge_maps on its own                                                   *)
(***************************************************************************)

\* Macro names and values the callers of merge_maps use.
MergeKeys == {"FLOAT_TYPE", "A_TYPE", "D_TYPE"}
MergeValues == {"float", "float16_t"}

\* The maps from some of the keys to the values.
MergeMaps == UNION {[D -> MergeValues] : D \in SUBSET MergeKeys}

InitMerge ==
    /\ gates = NoGates
    /\ types = type_names
    /\ args = [target_cmake |-> FALSE, no_embed |-> FALSE, help |-> FALSE]
    /\ dirs = {input_dir, output_dir}
    /\ spv_disk = AllCompiled
    /\ files = [u \in UnitPaths |-> NoFile]
    /\ files0 = files
    /\ pc = "merge"
    /\ exit_code = "none"
    /\ threw = FALSE
    /\ run = 1
    /\ shader_fnames = << >>
    /\ cmake = cmake_empty
    /\ arg_content = << >>
    /\ spv_reads = 0
    /\ fn_args \in [a : MergeMaps, b : MergeMaps]
    /\ fn_result = << >>

\* merge_maps(a, b) (lines 257-261).
MergeMapsCall ==
    /\ pc = "merge"
    /\ fn_result' = merge_maps(fn_args.a, fn_args.b)
    /\ pc' = "merged"
    /\ UNCHANGED << gates, types, args, dirs, spv_disk, files, files0, exit_code, threw,
                    run, shader_fnames, cmake, arg_content, spv_reads, fn_args >>

NextMerge == MergeMapsCall

SpecMerge == InitMerge /\ [][NextMerge]_vars


(***************************************************************************)
(* The build graph of an embed-mode run under a build orchestrator         *)
(***************************************************************************)

\* The compiled outputs the orchestrator is followed on one by one; the
\* compile rules of the other outputs are followed as one step.
BuildJobs == {"matmul_f32_f16_fp32", "add_f32_f32_f32", "flash_attn_f32_f16_f16",
              "mul_mat_vec_q4_0_f32_f32", "multi_add_rms_f32"}
BuildPaths == {PathJoin(output_dir, n \o ".spv") : n \in BuildJobs}

\* The options main finds in argv (lines 853-864): the arguments that
\* start with "--"; target_cmake, no_embed and help as lines 882-890 set
\* them.
ParseArgs(argv) ==
    LET options == {argv[i] : i \in {j \in 2..Len(argv) : string_starts_with(argv[j], "--")}}
    IN  [target_cmake |-> "--target-cmake" \in options,
         no_embed |-> "--no-embed" \in options,
         help |-> "--help" \in options]

\* The first invocation is the one of embed mode: the build graph is
\* requested without --no-embed, and nothing is compiled yet.
InitBuild ==
    /\ gates \in {NoGates, AllGates}
    /\ types = type_names
    /\ args = ParseArgs(<< "vulkan-shaders-gen", "--target-cmake", target_cmake_path >>)
    /\ dirs \in SUBSET {input_dir, output_dir}
    /\ spv_disk = [probe |-> [p \in BuildPaths |-> NoFile], rest |-> NoFile]
    /\ files = [u \in UnitPaths |-> NoFile]
    /\ files0 = files
    /\ pc = "start"
    /\ exit_code = "none"
    /\ threw = FALSE
    /\ run = 1
    /\ shader_fnames = << >>
    /\ cmake = cmake_empty
    /\ arg_content = << >>
    /\ spv_reads = 0
    /\ fn_args = << >>
    /\ fn_result = << >>

\* The build graph the orchestrator works on: the unit the first
\* invocation wrote.
BuildGraph == files[target_cmake_path].data

\* The custom commands of a build graph (add_target_embed, lines 222-234).
CustomCommands(out) == SelectSeq(out, LAMBDA c : c.kind = "add_custom_command")

\* The orchestrator has the build graph and has not run its custom command.
Building ==
    /\ pc = "done" /\ exit_code = "EXIT_SUCCESS" /\ run = 1
    /\ files[target_cmake_path].exists

\* The outputs of the compile_shader rules of a build graph.
RuleOutputs(out) ==
    {out[i].out_path : i \in {k \in 1..Len(out) : out[k].kind = "compile_shader"}}

\* The orchestrator runs a compile_shader rule (lines 201-207): glslc
\* writes the rule's output.
CompileShader ==
    /\ Building
    /\ \E p \in BuildPaths \cap RuleOutputs(BuildGraph) :
          /\ ~spv_disk.probe[p].exists
          /\ spv_disk' = [spv_disk EXCEPT !.probe[p] = File(LongBytes, 0)]
    /\ UNCHANGED << gates, types, args, dirs, files, files0, pc, exit_code, threw, run,
                    shader_fnames, cmake, arg_content, spv_reads, fn_args, fn_result >>

\* The orchestrator runs the compile_shader rules of the outputs that are
\* not followed one by one.
CompileOthers ==
    /\ Building
    /\ RuleOutputs(BuildGraph) \ BuildPaths /= {}
    /\ ~spv_disk.rest.exists
    /\ spv_disk' = [spv_disk EXCEPT !.rest = File(DefaultBytes, 0)]
    /\ UNCHANGED << gates, types, args, dirs, files, files0, pc, exit_code, threw, run,
                    shader_fnames, cmake, arg_content, spv_reads, fn_args, fn_result >>

\* The orchestrator runs the custom command of the build graph once each of
\* its DEPENDS exists: the generator is invoked with the COMMAND line, in a
\* new process.
EmbedCommand ==
    /\ Building
    /\ \E command \in {BuildGraph[i] : i \in {k \in 1..Len(BuildGraph) :
                                    BuildGraph[k].kind = "add_custom_command"}} :
          /\ {k \in 1..Len(command.depends) : ~SpvFile(command.depends[k]).exists} = {}
          /\ args' = ParseArgs(command.command)
    /\ run' = run + 1
    /\ pc' = "start"
    /\ exit_code' = "none"
    /\ threw' = FALSE
    /\ shader_fnames' = << >>
    /\ cmake' = cmake_empty
    /\ files0' = files
    /\ spv_reads' = 0
    /\ UNCHANGED << gates, types, dirs, spv_disk, files, arg_content, fn_args, fn_result >>

NextBuild ==
    \/ Main_Begin \/ ProcessShaders \/ WriteEmbedFiles \/ Main_End
    \/ CompileShader \/ CompileOthers \/ EmbedCommand

SpecBuild == InitBuild /\ [][NextBuild]_vars

(***************************************************************************)
(* The generator on a disk that refuses writes                             *)
(***************************************************************************)

\* The states of an output unit before the run: missing and writable,
\* missing in a place where no file can be created, present and read-only,
\* and missing on a device that accepts the open but not the write.
UnitStates ==
    {NoFile, Unwritable(NoFile, "open_fails"),
     Unwritable(File(<< "stale" >>, 0), "open_fails"),
     Unwritable(NoFile, "write_fails")}

InitDisk ==
    /\ gates = NoGates
    /\ types = type_names
    /\ args \in [target_cmake : BOOLEAN, no_embed : BOOLEAN, help : BOOLEAN]
    /\ dirs \in SUBSET {input_dir, output_dir}
    /\ spv_disk = AllCompiled
    /\ files \in [UnitPaths -> UnitStates]
    /\ files0 = files
    /\ pc = "start"
    /\ exit_code = "none"
    /\ threw = FALSE
    /\ run = 1
    /\ shader_fnames = << >>
    /\ cmake = cmake_empty
    /\ arg_content = << >>
    /\ spv_reads = 0
    /\ fn_args = << >>
    /\ fn_result = << >>

NextDisk == Main_Begin \/ ProcessShaders \/ WriteEmbedFiles \/ Main_End

SpecDisk == InitDisk /\ [][NextDisk]_vars
(***************************************************************************)
(* Properties                                                              *)
(***************************************************************************)

\* The state right after process_shaders returned: before std::sort.
AfterProcessShaders ==
    pc = "embed" \/ (pc = "finish" /\ ~CallsWriteEmbedFiles(args))

\* The state right after write_embed_files returned.
AfterWriteEmbedFiles == pc = "finish" /\ CallsWriteEmbedFiles(args)

\* A run that went through main to its last return.
RanToEnd == pc = "done" /\ exit_code = "EXIT_SUCCESS" /\ ~args.help

\* The compile rules of a build graph, in the order they were emitted.
CompileRules(out) == SelectSeq(out, LAMBDA c : c.kind = "compile_shader")

Range(s) == {s[i] : i \in 1..Len(s)}

\* s is strictly ascending under std::string's operator<.
Ascending(s) == \A i \in 1..(Len(s) - 1) : StrLess(s[i], s[i + 1])

\* Position of the first occurrence of sub in s at or after i; 0 if none.
RECURSIVE Find(_, _, _)
Find(s, sub, i) ==
    IF i + Len(sub) - 1 > Len(s) THEN 0
    ELSE IF SubSeq(s, i, i + Len(sub) - 1) = sub THEN i
    ELSE Find(s, sub, i + 1)

\* Position of the last occurrence of sub in s at or before i; 0 if none.
RECURSIVE FindLast(_, _, _)
FindLast(s, sub, i) ==
    IF i < 1 THEN 0
    ELSE IF SubSeq(s, i, i + Len(sub) - 1) = sub THEN i
    ELSE FindLast(s, sub, i - 1)

\* The name in "<prefix><name>_data[<n>]<rest>": the text between the
\* prefix and the last "_data[".
ArrayName(line, prefix) ==
    LET r == SubSeq(line, Len(prefix) + 1, Len(line))
    IN  SubSeq(r, 1, FindLast(r, "_data[", Len(r) - Len("_data[") + 1) - 1)

\* The name in "<prefix><name>_data = <rest>": the text between the prefix
\* and the first "_data = ".
PointerName(line, prefix) ==
    LET r == SubSeq(line, Len(prefix) + 1, Len(line))
    IN  SubSeq(r, 1, Find(r, "_data = ", 1) - 1)

\* The shader symbols a declarations unit declares, in the order of its
\* lines: "extern const unsigned char <name>_data[<n>];" when embedding and
\* "inline constexpr char const * <name>_data = ..." with --no-embed.
HppSymbols(lines) ==
    LET e == "extern const unsigned char "
        n == "inline constexpr char const * "
        sel == SelectSeq(lines, LAMBDA l : string_starts_with(l, e)
                                           \/ string_starts_with(l, n))
    IN  [i \in 1..Len(sel) |->
            IF string_starts_with(sel[i], e)
            THEN ArrayName(sel[i], e)
            ELSE PointerName(sel[i], n)] \o << >>

\* The shader symbols a definitions unit defines, in the order of its
\* lines: "const unsigned char <name>_data[<n>] = {".
CppSymbols(lines) ==
    LET p == "const unsigned char "
        sel == SelectSeq(lines, LAMBDA l : string_starts_with(l, p))
    IN  [i \in 1..Len(sel) |-> ArrayName(sel[i], p)] \o << >>

\* The unit at path u was written during the current run.
Rewritten(u) == files[u].exists /\ files[u].mtime = run

\* C1: after process_shaders has run, under every combination of the four
\* capability gates, no two entries of shader_fnames have the same name
\* (the name being the base name with the suffixes string_to_spv appends).
C1_NamesUnique ==
    Cardinality({shader_fnames[i][1] : i \in 1..Len(shader_fnames)})
        = Len(shader_fnames)

\* A catalog built with every gate on, holding the same base name under
\* four different suffixes.
C1_Witness ==
    /\ AfterProcessShaders
    /\ gates = AllGates
    /\ {"matmul_f32_f16", "matmul_f32_f16_fp32", "matmul_f32_f16_f16acc_cm1",
        "matmul_f32_f16_cm2"} \subseteq {shader_fnames[i][1] : i \in 1..Len(shader_fnames)}

\* C2 as claimed: at the end of a second run with the same arguments and
\* the same compiled binaries, no unit whose content is unchanged was
\* rewritten, in every invocation mode.
C2_Original ==
    (RanToEnd /\ run > 1) =>
        \A u \in UnitPaths :
            (files0[u].exists /\ files[u].data = files0[u].data) => ~Rewritten(u)

\* C2: at the end of a second run with the same arguments and the same
\* compiled binaries, the declarations unit and the build-graph unit are
\* not rewritten when their content is unchanged, and neither is the
\* definitions unit of a --no-embed run; the definitions unit of an
\* embedding run is rewritten by every run.
C2_Idempotent ==
    (RanToEnd /\ run > 1) =>
        /\ \A u \in UnitPaths :
              (/\ files0[u].exists
               /\ files[u].data = files0[u].data
               /\ (u = target_cpp => args.no_embed))
              => files[u] = files0[u]
        /\ ReadsOutputs(args) => Rewritten(target_cpp)

\* A second run of the mode that writes all three units, none of them
\* rewritten.
C2_Witness ==
    /\ RanToEnd /\ run > 1
    /\ args.target_cmake /\ args.no_embed
    /\ \A u \in UnitPaths : files0[u].exists /\ files[u] = files0[u] /\ ~Rewritten(u)

C4_Original ==
    RanToEnd =>
        /\ files[target_cmake_path].exists =>
              Ascending([i \in 1..Len(CompileRules(files[target_cmake_path].data)) |->
                            CompileRules(files[target_cmake_path].data)[i].name])
        /\ files[target_hpp].exists => Ascending(HppSymbols(files[target_hpp].data))

\* C4: write_embed_files sorts shader_fnames before it emits anything, so
\* the symbols of the declarations unit and of the definitions unit are in
\* ascending order of job name; the compile rules of the build graph were
\* emitted by string_to_spv before the sort, in the order process_shaders
\* made the calls, which is not ascending.
C4_SymbolsSorted ==
    /\ AfterWriteEmbedFiles =>
          /\ Ascending([i \in 1..Len(shader_fnames) |-> shader_fnames[i][1]])
          /\ Ascending(HppSymbols(files[target_hpp].data))
          /\ Ascending(CppSymbols(files[target_cpp].data))
    /\ (RanToEnd /\ files[target_cmake_path].exists) =>
          LET rules == CompileRules(files[target_cmake_path].data) IN
          /\ [i \in 1..Len(rules) |-> rules[i].name]
                = [i \in 1..Len(Catalog(gates, types)) |-> Catalog(gates, types)[i].name]
          /\ ~Ascending([i \in 1..Len(rules) |-> rules[i].name])

\* A run that wrote the build graph and the embedding units: the rules are
\* out of order, the symbols are in order.
C4_Witness ==
    /\ RanToEnd
    /\ args.target_cmake /\ args.no_embed
    /\ Len(HppSymbols(files[target_hpp].data)) = Len(shader_fnames)
    /\ Ascending(HppSymbols(files[target_hpp].data))
    /\ ~Ascending([i \in 1..Len(CompileRules(files[target_cmake_path].data)) |->
                      CompileRules(files[target_cmake_path].data)[i].name])

\* The lines of the embedding units that declare or define a q8_1 dmmv
\* lookup table.
Q8_1TableLines(lines) ==
    SelectSeq(lines, LAMBDA l :
        /\ \/ string_starts_with(l, "extern const void * arr_dmmv_")
           \/ string_starts_with(l, "extern const uint64_t arr_dmmv_")
           \/ string_starts_with(l, "const void * arr_dmmv_")
           \/ string_starts_with(l, "const uint64_t arr_dmmv_")
        /\ StrContains(l, "_q8_1_f32_"))

\* C5: a capability gate that is not compiled in leaves no job of that
\* capability in the catalog: no job with coopmat = true (suffix _cm1)
\* without cooperative-matrix 1, no job with coopmat2 = true (suffix _cm2)
\* without cooperative-matrix 2, and without integer-dot no job built from
\* mul_mmq.comp or mul_mat_vecq.comp and no q8_1 dmmv lookup table in the
\* embedding units.
C5_GatesOmitJobs ==
    /\ AfterProcessShaders =>
          \A r \in Range(CompileRules(cmake.out)) :
              /\ ~gates.COOPMAT =>
                    ~r.coopmat /\ ~string_ends_with(r.name, "_cm1")
              /\ ~gates.COOPMAT2 =>
                    ~r.coopmat2 /\ ~string_ends_with(r.name, "_cm2")
              /\ ~gates.INTEGER_DOT =>
                    r.in_fname \notin {"mul_mmq.comp", "mul_mat_vecq.comp"}
    /\ (AfterWriteEmbedFiles /\ ~gates.INTEGER_DOT) =>
          /\ Q8_1TableLines(files[target_hpp].data) = << >>
          /\ Q8_1TableLines(files[target_cpp].data) = << >>

\* A build without any gate that wrote its embedding units, with the f16
\* dmmv tables in them.
C5_Witness ==
    /\ AfterWriteEmbedFiles
    /\ gates = NoGates
    /\ Len(CompileRules(cmake.out)) > 0
    /\ "extern const void * arr_dmmv_q4_0_f16_f32_data[3];" \in Range(files[target_hpp].data)

\* The matrix-multiply jobs of a build graph, each described by its id
\* type, cooperative-matrix level, f16 accumulation, operand (A) type and
\* alignment, as its arguments and defines state them.
MatmulKeys(out) ==
    LET jobs == {r \in Range(CompileRules(out)) :
                    r.in_fname \in {"mul_mm.comp", "mul_mm_cm2.comp"}}
        id(d) == IF "MUL_MAT_ID_USE_SUBGROUPS" \in d THEN "SUBGROUP"
                 ELSE IF "MUL_MAT_ID" \in d THEN "DEFAULT"
                 ELSE "NONE"
        level(r) == IF r.coopmat2 THEN 2 ELSE IF r.coopmat THEN 1 ELSE 0
        data_a == {<< t, "DATA_A_" \o to_uppercase(t) >> : t \in Range(type_names)}
        key(r, d) == {<< id(d), level(r), r.f16acc, ta[1], "ALIGNED" \in d >> :
                         ta \in {ta \in data_a : ta[2] \in d}}
    IN  UNION {key(r, DOMAIN r.defines) : r \in jobs}

\* The cooperative-matrix levels compiled in (0 is none).
Levels(g) == {0} \cup (IF g.COOPMAT THEN {1} ELSE {}) \cup (IF g.COOPMAT2 THEN {2} ELSE {})

\* f16, f32 and the quantized types of the type list.
OperandTypes(tnames) == {t \in Range(tnames) : t /= "bf16"}

\* C6 as claimed: for every id type, every cooperative-matrix level compiled
\* in, both accumulation precisions and every operand type, the catalog
\* holds an aligned and an unaligned matrix-multiply job.
C6_Original ==
    AfterProcessShaders =>
        LET keys == MatmulKeys(cmake.out) IN
        \A id \in MatMulIdType, l \in Levels(gates), f16acc \in BOOLEAN,
           t \in OperandTypes(types), aligned \in BOOLEAN :
            << id, l, f16acc, t, aligned >> \in keys

\* C6: for the id types NONE (no-id) and SUBGROUP (id-gather with subgroup)
\* at every cooperative-matrix level compiled in, and for the id type
\* DEFAULT (id-gather) without cooperative matrix, the catalog holds, for
\* both accumulation precisions and every operand type, an aligned and an
\* unaligned matrix-multiply job; for DEFAULT no cooperative-matrix job is
\* generated at all.
C6_MatmulCoverage ==
    AfterProcessShaders =>
        LET keys == MatmulKeys(cmake.out) IN
        /\ \A id \in MatMulIdType, l \in Levels(gates), f16acc \in BOOLEAN,
              t \in OperandTypes(types), aligned \in BOOLEAN :
               (id /= "DEFAULT" \/ l = 0) => << id, l, f16acc, t, aligned >> \in keys
        /\ \A k \in keys : k[1] = "DEFAULT" => k[2] = 0

\* A build with both cooperative-matrix levels whose catalog holds the
\* level-2, f16-accumulate, aligned q4_0 job of the subgroup id type.
C6_Witness ==
    /\ AfterProcessShaders
    /\ gates.COOPMAT /\ gates.COOPMAT2
    /\ << "SUBGROUP", 2, TRUE, "q4_0", TRUE >> \in MatmulKeys(cmake.out)
    /\ << "NONE", 1, FALSE, "f32", FALSE >> \in MatmulKeys(cmake.out)

\* The scenario of C7: the type list {f32, f16, q4_0}, no capability gate.
C7_Scenario ==
    /\ AfterProcessShaders
    /\ gates = NoGates
    /\ types = << "f32", "f16", "q4_0" >>

\* The bf16 matrix-multiply jobs of a build graph.
Bf16MatmulJobs(out) ==
    {r \in Range(CompileRules(out)) :
        r.in_fname \in {"mul_mm.comp", "mul_mm_cm2.comp"} /\ "DATA_A_BF16" \in DOMAIN r.defines}

\* What C7 and its correction share: no cooperative-matrix job, no
\* integer-dot job, and the aligned and unaligned matrix-multiply jobs of
\* f32, f16 and q4_0.
C7_Common ==
    /\ \A r \in Range(CompileRules(cmake.out)) :
          /\ ~r.coopmat /\ ~r.coopmat2
          /\ r.in_fname \notin {"mul_mmq.comp", "mul_mat_vecq.comp"}
    /\ {<< "NONE", 0, f16acc, t, aligned >> :
            t \in {"f32", "f16", "q4_0"}, aligned \in BOOLEAN, f16acc \in BOOLEAN}
          \subseteq MatmulKeys(cmake.out)

C8_OneRulePerJob ==
    /\ AfterProcessShaders =>
          LET rules == CompileRules(cmake.out) IN
          /\ Len(rules) = Len(shader_fnames)
          /\ \A i \in 1..Len(rules) :
                /\ rules[i].name = shader_fnames[i][1]
                /\ rules[i].out_path = shader_fnames[i][2]
                /\ rules[i].out_path = PathJoin(output_dir, rules[i].name \o ".spv")
          /\ Cardinality({rules[i].out_path : i \in 1..Len(rules)}) = Len(rules)
          /\ cmake.out_filepaths = [i \in 1..Len(rules) |-> rules[i].out_path]
    /\ (RanToEnd /\ args.target_cmake) =>
          LET rules == CompileRules(files[target_cmake_path].data) IN
          /\ Len(rules) = Len(shader_fnames)
          /\ {<< rules[i].name, rules[i].out_path >> : i \in 1..Len(rules)}
                = Range(shader_fnames)
          /\ Cardinality({rules[i].out_path : i \in 1..Len(rules)}) = Len(rules)

\* A written build graph with more than a thousand rules.
C8_Witness ==
    /\ RanToEnd /\ args.target_cmake
    /\ files[target_cmake_path].exists
    /\ Len(CompileRules(files[target_cmake_path].data)) > 1000
    /\ Len(CompileRules(files[target_cmake_path].data)) = Len(shader_fnames)

\* The commands of kind k in a build graph.
Commands(out, k) == SelectSeq(out, LAMBDA c : c.kind = k)

\* C9: every written build-graph unit holds exactly one aggregate target,
\* vulkan-shaders; with --no-embed it depends on the binary output of every
\* compile rule; otherwise it depends on the two embedding units, which
\* are the outputs of one command that invokes the generator again (without
\* --target-cmake) and depends on every binary output.
C9_AggregateTarget ==
    (RanToEnd /\ args.target_cmake) =>
        LET out == files[target_cmake_path].data
            rules == CompileRules(out)
            targets == Commands(out, "add_custom_target")
            embeds == Commands(out, "add_custom_command")
            outputs == [i \in 1..Len(rules) |-> rules[i].out_path]
        IN  /\ files[target_cmake_path].exists
            /\ Len(targets) = 1
            /\ targets[1].name = "vulkan-shaders"
            /\ out[Len(out)] = targets[1]
            /\ IF args.no_embed
               THEN /\ targets[1].depends = outputs
                    /\ embeds = << >>
               ELSE /\ targets[1].depends = << target_hpp, target_cpp >>
                    /\ Len(embeds) = 1
                    /\ embeds[1].output = << target_hpp, target_cpp >>
                    /\ embeds[1].command[1] = Argv(args)[1]
                    /\ "--target-cmake" \notin Range(embeds[1].command)
                    /\ "--no-embed" \notin Range(embeds[1].command)
                    /\ embeds[1].depends = outputs

\* A written build graph of the embedding mode.
C9_Witness ==
    /\ RanToEnd /\ args.target_cmake /\ ~args.no_embed
    /\ Rewritten(target_cmake_path)
    /\ Len(Commands(files[target_cmake_path].data, "add_custom_command")) = 1

\* The compiled output at path exists, is readable and is not empty.
Embeddable(path) ==
    SpvFile(path).exists /\ SpvFile(path).readable /\ Len(SpvFile(path).data) > 0

\* C10: in embed mode a job has a symbol in the generated units (the
\* declaration of its data array and its length constant in the
\* declarations unit, the array in the definitions unit) if and only if its
\* compiled output exists, is readable and is not empty; a job whose output
\* is missing has no symbol, the other jobs have theirs, and the run
\* returns EXIT_SUCCESS.
C10_SymbolIffReadable ==
    /\ (AfterWriteEmbedFiles /\ ReadsOutputs(args)) =>
          LET hpp == HppSymbols(files[target_hpp].data)
              cpp == CppSymbols(files[target_cpp].data)
              hppset == Range(hpp)
              cppset == Range(cpp)
              lines == Range(files[target_hpp].data)
          IN  /\ Len(hpp) = Cardinality(hppset)
              /\ hpp = cpp
              /\ \A i \in 1..Len(shader_fnames) :
                    LET name == shader_fnames[i][1]
                        path == shader_fnames[i][2]
                    IN  IF Embeddable(path)
                        THEN /\ name \in hppset
                             /\ ("const uint64_t " \o name \o "_len = "
                                    \o DecStr(Len(SpvFile(path).data)) \o ";") \in lines
                        ELSE name \notin hppset
    /\ (pc = "done" /\ ReadsOutputs(args) /\ ~args.help /\ ~threw /\ input_dir \in dirs)
          => exit_code = "EXIT_SUCCESS"

\* An embedding run that ended with EXIT_SUCCESS although the probed
\* output is missing: the probed job has no symbol, another job has one.
C10_Witness ==
    /\ RanToEnd /\ ReadsOutputs(args)
    /\ \A p \in ProbePaths : ~SpvFile(p).exists
    /\ \A n \in ProbeJobs : n \notin Range(HppSymbols(files[target_hpp].data))
    /\ "add_f16_f32_f32" \in Range(HppSymbols(files[target_hpp].data))
    /\ "add_f16_f32_f32" \in Range(CppSymbols(files[target_cpp].data))

\* The stub of a job in a --no-embed run: its two lines.
StubLines(name, path) ==
    {"inline constexpr char const * " \o name \o "_data = \"" \o filename(path) \o "\";",
     "const uint64_t " \o name \o "_len = 0;"}

\* The lines of a unit that belong to a literal byte array: the opening
\* line of an array definition, or a line of 0x.. tokens.
ArrayLines(lines) ==
    SelectSeq(lines, LAMBDA l : string_starts_with(l, "const unsigned char ")
                                \/ string_starts_with(l, "0x"))

\* The lines of a unit that belong to a stub.
StubDataLines(lines) ==
    SelectSeq(lines, LAMBDA l : string_starts_with(l, "inline constexpr char const * "))

\* C11 as claimed: after write_embed_files ran with --no-embed, the
\* definitions unit holds the stub of every catalog job and no literal byte
\* array, and no compiled binary was read.
C11_Original ==
    (AfterWriteEmbedFiles /\ args.no_embed) =>
        /\ \A i \in 1..Len(shader_fnames) :
              StubLines(shader_fnames[i][1], shader_fnames[i][2])
                  \subseteq Range(files[target_cpp].data)
        /\ ArrayLines(files[target_cpp].data) = << >>
        /\ spv_reads = 0

\* C11: after write_embed_files ran with --no-embed, the declarations unit
\* holds the stub of every catalog job (a string constant with the file
\* name of the compiled output and a length constant 0), one per job; the
\* definitions unit holds no stub; neither unit holds a literal byte array;
\* and no compiled binary was read, whatever the state of the outputs on
\* disk.
C11_StubsInHeader ==
    (AfterWriteEmbedFiles /\ args.no_embed) =>
        LET hpp == files[target_hpp].data
            cpp == files[target_cpp].data
            lines == Range(hpp)
        IN  /\ \A i \in 1..Len(shader_fnames) :
                  StubLines(shader_fnames[i][1], shader_fnames[i][2]) \subseteq lines
            /\ Len(StubDataLines(hpp)) = Len(shader_fnames)
            /\ StubDataLines(cpp) = << >>
            /\ ArrayLines(cpp) = << >>
            /\ ArrayLines(hpp) = << >>
            /\ \A l \in lines : ~string_starts_with(l, "extern const unsigned char ")
            /\ spv_reads = 0

\* A --no-embed run with no compiled output on disk whose declarations unit
\* holds the stub of the probed job.
C11_Witness ==
    /\ AfterWriteEmbedFiles /\ args.no_embed
    /\ spv_disk.rest = NoFile
    /\ \A p \in ProbePaths : ~SpvFile(p).exists
    /\ \A n \in ProbeJobs :
          StubLines(n, PathJoin(output_dir, n \o ".spv")) \subseteq Range(files[target_hpp].data)
    /\ Len(files[target_cpp].data) > 2

\* The value of a string of decimal digits (of hexadecimal digits), or -1
\* when a character is not a digit.
RECURSIVE DigitsVal(_, _, _)
DigitsVal(s, digits, base) ==
    IF Len(s) = 0 THEN 0
    ELSE LET d == Find(digits, CharAt(s, Len(s)), 1)
             rest == DigitsVal(SubSeq(s, 1, Len(s) - 1), digits, base)
         IN  IF d = 0 \/ rest < 0 THEN -1 ELSE rest * base + (d - 1)

DecVal(s) == IF Len(s) = 0 THEN -1 ELSE DigitsVal(s, "0123456789", 10)

HexVal(s) == IF Len(s) = 0 THEN -1 ELSE DigitsVal(s, "0123456789abcdefABCDEF", 16)

\* The bytes of one line of an array literal: its comma-terminated tokens
\* 0x<hex>, read from position i; << -1 >> for text that is no such token.
RECURSIVE LineBytes(_, _)
LineBytes(line, i) ==
    IF i > Len(line) THEN << >>
    ELSE LET c == Find(line, ",", i) IN
         IF c = 0 \/ c < i + 3 \/ SubSeq(line, i, i + 1) /= "0x" THEN << -1 >>
         ELSE << HexVal(SubSeq(line, i + 2, c - 1)) >> \o LineBytes(line, c + 1)

\* The lines of an array definition between its opening line and "};".
ArrayBody(src) ==
    LET close == CHOOSE k \in 1..Len(src) : src[k] = "};" /\ \A j \in 1..(k - 1) : src[j] /= "};"
    IN  SubSeq(src, 2, close - 1)

\* The bytes of an array definition, in the order of its tokens.
RECURSIVE DecodeLines(_)
DecodeLines(body) ==
    IF body = << >> THEN << >> ELSE LineBytes(Head(body), 1) \o DecodeLines(Tail(body))

\* The text of line between the first occurrence of open and the next
\* occurrence of close.
TextBetween(line, open, close) ==
    LET a == Find(line, open, 1) + Len(open)
        b == Find(line, close, a)
    IN  SubSeq(line, a, b - 1)

\* C12: for every non-empty byte sequence read from a compiled output, the
\* array literal written for it consists of lines of comma-terminated
\* 0x-prefixed hexadecimal tokens, twelve on every line but the last, and
\* reading the tokens back gives the bytes in their order.
C12_RoundTrip ==
    (pc = "embedded" /\ Len(fn_args.file.data) > 0) =>
        LET body == ArrayBody(fn_result.src)
            perline == [i \in 1..Len(body) |-> Len(LineBytes(body[i], 1))]
        IN  /\ DecodeLines(body) = fn_args.file.data
            /\ \A i \in 1..(Len(body) - 1) : perline[i] = 12
            /\ perline[Len(body)] < 12

\* An output of thirteen bytes, of one and of two hexadecimal digits, whose
\* literal has a full first line.
C12_Witness ==
    /\ pc = "embedded"
    /\ Len(fn_args.file.data) = 13
    /\ {9, 160} \subseteq Range(fn_args.file.data)
    /\ Len(ArrayBody(fn_result.src)) = 2
    /\ DecodeLines(ArrayBody(fn_result.src)) = fn_args.file.data

\* C16: for every embedded artifact the size declared for <job>_data in
\* the declarations unit, the size in its definition, the value of
\* <job>_len and the number of byte literals of the definition all equal
\* the byte length of the compiled file; the symbols are named <job
\* name>_data and <job name>_len.
C16_SizesAgree ==
    (pc = "embedded" /\ Len(fn_args.file.data) > 0) =>
        LET n == Len(fn_args.file.data)
            decl == fn_result.hdr[1]
            len == fn_result.hdr[2]
            def == fn_result.src[1]
        IN  /\ DecVal(TextBetween(decl, "[", "]")) = n
            /\ DecVal(TextBetween(def, "[", "]")) = n
            /\ DecVal(TextBetween(len, " = ", ";")) = n
            /\ Len(DecodeLines(ArrayBody(fn_result.src))) = n
            /\ TextBetween(decl, "extern const unsigned char ", "[") = fn_args.name \o "_data"
            /\ TextBetween(def, "const unsigned char ", "[") = fn_args.name \o "_data"
            /\ TextBetween(len, "const uint64_t ", " = ") = fn_args.name \o "_len"

\* An embedded artifact of twelve bytes: a size of two decimal digits.
C16_Witness ==
    /\ pc = "embedded"
    /\ Len(fn_args.file.data) = 12
    /\ fn_result.hdr[1] = "extern const unsigned char add_f32_f32_f32_data[12];"
    /\ Len(fn_result.src) = 5

\* The characters of a C++ identifier.
IdentChars ==
    {"_"} \cup {CharAt(LowerChars, i) : i \in 1..26}
          \cup {CharAt(UpperChars, i) : i \in 1..26}
          \cup {CharAt(DigitChars, i) : i \in 1..10}

\* The identifiers of text: its maximal runs of identifier characters.
Identifiers(text) ==
    LET n == Len(text)
        isId == [i \in 1..n |-> CharAt(text, i) \in IdentChars]
        starts == {i \in 1..n : isId[i] /\ (i = 1 \/ ~isId[i - 1])}
        ends == {i \in 1..n : isId[i] /\ (i = n \/ ~isId[i + 1])}
        end(i) == CHOOSE e \in ends : e >= i /\ \A f \in ends : f >= i => e <= f
    IN  {SubSeq(text, i, end(i)) : i \in starts}

\* The job names the lookup tables of a definitions unit refer to: the
\* identifiers <name>_data and <name>_len in the initializers of the
\* "const void * ..." and "const uint64_t ..." tables.
TableReferences(lines) ==
    LET tables == SelectSeq(lines, LAMBDA l : string_starts_with(l, "const void * ")
                                              \/ string_starts_with(l, "const uint64_t "))
        init(l) == SubSeq(l, Find(l, " = ", 1) + 3, Len(l))
        ids == UNION {Identifiers(init(tables[i])) : i \in 1..Len(tables)}
    IN  {SubSeq(id, 1, Len(id) - 5) : id \in {x \in ids : string_ends_with(x, "_data")}}
        \cup {SubSeq(id, 1, Len(id) - 4) : id \in {x \in ids : string_ends_with(x, "_len")}}

\* C13: after write_embed_files, under every combination of the capability
\* gates, every symbol the lookup tables of the definitions unit refer to
\* (the entries of the 2x2x2x2 tables of add, sub, mul, div and add_rms and
\* of the arr_dmmv tables) has the name of a job of the catalog.
C13_TableNamesInCatalog ==
    AfterWriteEmbedFiles =>
        TableReferences(files[target_cpp].data)
            \subseteq {shader_fnames[i][1] : i \in 1..Len(shader_fnames)}

\* A build with integer-dot whose tables refer to a rounding variant of an
\* op, to a subgroup dmmv job and to a q8_1 dmmv job.
C13_Witness ==
    /\ AfterWriteEmbedFiles
    /\ gates.INTEGER_DOT
    /\ {"add_rms_f16_f32_f16_rte", "div_f32_f32_f32",
        "mul_mat_vec_iq4_nl_f16_f32_subgroup_no_shmem",
        "mul_mat_vec_q5_1_q8_1_f32_subgroup"}
          \subseteq TableReferences(files[target_cpp].data)
    /\ Cardinality(TableReferences(files[target_cpp].data)) > 200

\* The units the usage text assigns to an invocation mode.
UnitsOfMode(a) ==
    IF a.target_cmake /\ ~a.no_embed THEN {target_cmake_path}
    ELSE IF ~a.target_cmake THEN {target_hpp, target_cpp}
    ELSE {target_cmake_path, target_hpp, target_cpp}

\* C14: at the end of a successful run the units on disk are those of the
\* invocation mode and each was written by some run: only the build graph
\* with --target-cmake and without --no-embed; only the two embedding
\* units without --target-cmake; the build graph and the two embedding
\* units, as stubs, with --target-cmake and --no-embed.  A unit outside
\* the mode is never written.
C14_ModeDeterminesUnits ==
    /\ RanToEnd =>
          /\ {u \in UnitPaths : files[u].exists} = UnitsOfMode(args)
          /\ \A u \in UnitsOfMode(args) : files[u].mtime \in 1..run
          /\ (args.target_cmake /\ args.no_embed) =>
                /\ files[target_hpp].data[3]
                      = "#define GGML_VK_SHADER_DIR \"" \o output_dir \o "\""
                /\ files[target_hpp].data[5]
                      = "inline constexpr char const * " \o shader_fnames[1][1]
                           \o "_data = \"" \o shader_fnames[1][1] \o ".spv\";"
                /\ files[target_cpp].data[3] = op_table_src_lines("add")[1]
    /\ \A u \in UnitPaths \ UnitsOfMode(args) : ~files[u].exists

\* A finished run of the mode that writes the build graph only.
C14_Witness ==
    /\ RanToEnd
    /\ args.target_cmake /\ ~args.no_embed
    /\ Rewritten(target_cmake_path)
    /\ ~files[target_hpp].exists /\ ~files[target_cpp].exists

\* The option checks that end main at once.
InputDirMissing == input_dir \notin dirs
NoEmbedWithoutCmake == args.no_embed /\ ~args.target_cmake

\* C15 as claimed: a run started without the input directory, or with
\* --no-embed and without --target-cmake, ends at once with a nonzero exit
\* code, writes no unit and creates no directory; every other run that
\* ends without an exception exits 0.
C15_Original ==
    [][/\ (pc = "start" /\ (InputDirMissing \/ NoEmbedWithoutCmake)) =>
            /\ pc' = "done" /\ exit_code' = "EXIT_FAILURE"
            /\ files' = files /\ dirs' = dirs
       /\ (pc' = "done" /\ pc /= "done" /\ ~threw'
             /\ ~(InputDirMissing \/ NoEmbedWithoutCmake)) =>
            exit_code' = "EXIT_SUCCESS"]_vars

\* C15: a run without --help that is started without the input directory,
\* or with --no-embed and without --target-cmake, ends at once with a
\* nonzero exit code, writes no unit and creates no directory; a run with
\* --help ends at once with exit code 0, whatever the other options and
\* directories are; every other run that ends without an exception exits 0.
C15_FailFast ==
    [][/\ (pc = "start" /\ ~args.help /\ (InputDirMissing \/ NoEmbedWithoutCmake)) =>
            /\ pc' = "done" /\ exit_code' = "EXIT_FAILURE"
            /\ files' = files /\ dirs' = dirs
       /\ (pc = "start" /\ args.help) =>
            /\ pc' = "done" /\ exit_code' = "EXIT_SUCCESS"
            /\ files' = files /\ dirs' = dirs
       /\ (pc' = "done" /\ pc /= "done" /\ ~threw'
             /\ ~(InputDirMissing \/ NoEmbedWithoutCmake)) =>
            exit_code' = "EXIT_SUCCESS"]_vars

\* A run that failed for the missing input directory alone, and left the
\* output directory missing too.
C15_Witness ==
    /\ pc = "done" /\ exit_code = "EXIT_FAILURE"
    /\ ~args.help /\ ~NoEmbedWithoutCmake
    /\ dirs = {}
    /\ \A u \in UnitPaths : ~files[u].exists

Optimized(r) == "-O" \in Range(r.flags)

\* C18 as claimed: a job is compiled without -O if and only if it is a
\* cooperative-matrix variant of level 1 or of level 2, or its name
\* contains bf16.
C18_Original ==
    AfterProcessShaders =>
        \A r \in Range(CompileRules(cmake.out)) :
            ~Optimized(r) <=> (r.coopmat \/ r.coopmat2 \/ StrContains(r.name, "bf16"))

\* C18: a job is compiled without -O if and only if it is a
\* cooperative-matrix variant of level 1 (coopmat = true, suffix _cm1) or
\* its name contains bf16; every other job, the cooperative-matrix
\* variants of level 2 included, is compiled with -O.
C18_OptimizationFlag ==
    AfterProcessShaders =>
        \A r \in Range(CompileRules(cmake.out)) :
            /\ ~Optimized(r) <=> (r.coopmat \/ StrContains(r.name, "bf16"))
            /\ r.coopmat <=> string_ends_with(r.name, "_cm1")

\* A catalog with an optimized level-2 job, an unoptimized level-1 job, an
\* unoptimized bf16 job and an optimized scalar job.
C18_Witness ==
    /\ AfterProcessShaders
    /\ \E r \in Range(CompileRules(cmake.out)) :
          r.name = "matmul_f32_f16_cm2" /\ Optimized(r)
    /\ \E r \in Range(CompileRules(cmake.out)) :
          r.name = "matmul_f32_f16_cm1" /\ ~Optimized(r)
    /\ \E r \in Range(CompileRules(cmake.out)) :
          r.name = "matmul_bf16_cm2" /\ ~Optimized(r)
    /\ \E r \in Range(CompileRules(cmake.out)) :
          r.name = "matmul_f32_f16" /\ Optimized(r)

\* The shader source of the flash-attention implementation of a level:
\* 0 scalar, 1 cooperative-matrix 1, 2 cooperative-matrix 2.
FlashAttnSource(level) ==
    << "flash_attn.comp", "flash_attn_cm1.comp", "flash_attn_cm2.comp" >>[level + 1]

\* jobs holds a flash-attention job of the given type, level and
\* accumulation precision: the job string_to_spv names
\* flash_attn_f32_f16_<type>[_f16acc][_cm1|_cm2], built from the source of
\* that level with the coopmat arguments of that level.
FlashAttnJobExists(jobs, tname, level, f16acc) ==
    \E r \in jobs :
        /\ r.name = "flash_attn_f32_f16_" \o tname
                      \o (IF f16acc THEN "_f16acc" ELSE "")
                      \o << "", "_cm1", "_cm2" >>[level + 1]
        /\ r.in_fname = FlashAttnSource(level)
        /\ r.coopmat = (level = 1)
        /\ r.coopmat2 = (level = 2)
        /\ r.f16acc = f16acc

\* C19: for each accumulation precision and each type of type_names, no
\* flash-attention job exists for f32 or bf16; for every other type a
\* cooperative-matrix-2 job exists iff cooperative-matrix 2 is compiled in,
\* a cooperative-matrix-1 job exists iff cooperative-matrix 1 is compiled
\* in and the type is f16, q4_0 or q8_0, and a scalar job exists iff the
\* type is f16, q4_0 or q8_0.
C19_FlashAttnJobs ==
    AfterProcessShaders =>
        LET jobs == {r \in Range(CompileRules(cmake.out)) :
                        r.in_fname \in {FlashAttnSource(l) : l \in 0..2}}
            small == {"f16", "q4_0", "q8_0"}
        IN  \A f16acc \in BOOLEAN : \A tname \in Range(types) :
                IF tname \in {"f32", "bf16"}
                THEN \A l \in 0..2 : ~FlashAttnJobExists(jobs, tname, l, f16acc)
                ELSE /\ FlashAttnJobExists(jobs, tname, 2, f16acc) <=> gates.COOPMAT2
                     /\ FlashAttnJobExists(jobs, tname, 1, f16acc)
                            <=> (gates.COOPMAT /\ tname \in small)
                     /\ FlashAttnJobExists(jobs, tname, 0, f16acc) <=> tname \in small

\* A catalog built with both cooperative-matrix gates that holds the three
\* implementations for q4_0 in fp16 accumulation and only the
\* cooperative-matrix-2 one for iq4_nl in fp32 accumulation.
C19_Witness ==
    /\ AfterProcessShaders
    /\ gates.COOPMAT /\ gates.COOPMAT2
    /\ "bf16" \in Range(types) /\ "iq4_nl" \in Range(types)
    /\ LET jobs == Range(CompileRules(cmake.out))
       IN  /\ \A l \in 0..2 : FlashAttnJobExists(jobs, "q4_0", l, TRUE)
           /\ FlashAttnJobExists(jobs, "iq4_nl", 2, FALSE)
           /\ ~FlashAttnJobExists(jobs, "iq4_nl", 1, FALSE)
           /\ ~FlashAttnJobExists(jobs, "iq4_nl", 0, FALSE)

\* The A types of a job: the types of type_names whose DATA_A_<TYPE> define
\* the job carries.
DataATypes(r) ==
    {t \in Range(type_names) : ("DATA_A_" \o to_uppercase(t)) \in DOMAIN r.defines}

\* C20: the integer-dot jobs (q8_1 B operand, built from mul_mmq.comp or
\* mul_mat_vecq.comp) exist only when the integer-dot capability is
\* compiled in and only for the A types q4_0, q4_1, q5_0, q5_1 and q8_0;
\* the matrix-multiply ones exist only on the no-id, non-cooperative-matrix
\* path, under the name matmul_<type>_q8_1.
C20_IntegerDotJobs ==
    AfterProcessShaders =>
        LET legacy == {"q4_0", "q4_1", "q5_0", "q5_1", "q8_0"}
            jobs == {r \in Range(CompileRules(cmake.out)) :
                        r.in_fname \in {"mul_mmq.comp", "mul_mat_vecq.comp"}}
            q8_1 == {r \in Range(CompileRules(cmake.out)) :
                        /\ \/ string_starts_with(r.name, "matmul_")
                           \/ string_starts_with(r.name, "mul_mat_vec_")
                        /\ StrContains(r.name, "_q8_1")}
        IN  /\ q8_1 = jobs
            /\ \A r \in jobs :
                  /\ gates.INTEGER_DOT
                  /\ \E t \in legacy :
                        /\ DataATypes(r) = {t}
                        /\ r.in_fname = "mul_mmq.comp" =>
                              string_starts_with(r.name, "matmul_" \o t \o "_q8_1")
                        /\ r.in_fname = "mul_mat_vecq.comp" =>
                              string_starts_with(r.name, "mul_mat_vec_" \o t \o "_q8_1_f32")
                  /\ r.in_fname = "mul_mmq.comp" =>
                        /\ "MUL_MAT_ID" \notin DOMAIN r.defines
                        /\ ~r.coopmat /\ ~r.coopmat2

\* A catalog built with integer-dot and both cooperative-matrix gates: it
\* holds the q8_1 matrix-multiply and matrix-vector jobs of q4_0, and id and
\* cooperative-matrix matrix-multiply jobs of q4_0 that have no q8_1
\* counterpart, and a q4_k matrix-vector job without a q8_1 counterpart.
C20_Witness ==
    /\ AfterProcessShaders
    /\ gates.INTEGER_DOT /\ gates.COOPMAT /\ gates.COOPMAT2
    /\ LET names == {r.name : r \in Range(CompileRules(cmake.out))}
       IN  /\ {"matmul_q4_0_q8_1", "matmul_q4_0_q8_1_fp32", "matmul_q4_0_q8_1_f16acc",
               "mul_mat_vec_q4_0_q8_1_f32", "mul_mat_vec_q4_0_q8_1_f32_subgroup",
               "matmul_id_q4_0_f32", "matmul_q4_0_f32_cm1", "matmul_q4_0_f16_cm2",
               "mul_mat_vec_q4_k_f32_f32"} \subseteq names
           /\ {"matmul_id_q4_0_q8_1", "matmul_q4_0_q8_1_cm1", "matmul_q4_0_q8_1_cm2",
               "mul_mat_vec_q4_k_q8_1_f32"} \cap names = {}

\* The --target-env flags of a job.
TargetEnvFlags(r) ==
    {f \in Range(r.flags) : string_starts_with(f, "--target-env=")}

\* C21: a job's target environment flag is --target-env=vulkan1.3 if and
\* only if the job was generated for the cooperative-matrix-2 path
\* (coopmat2 = true); every other job gets --target-env=vulkan1.2.  Each job
\* has exactly one such flag, and _cm2 occurs in a name only as the suffix
\* string_to_spv appends for coopmat2.
C21_TargetEnv ==
    AfterProcessShaders =>
        \A r \in Range(CompileRules(cmake.out)) :
            /\ TargetEnvFlags(r) = {IF r.coopmat2 THEN "--target-env=vulkan1.3"
                                    ELSE "--target-env=vulkan1.2"}
            /\ StrContains(r.name, "_cm2") <=> r.coopmat2

\* A catalog with a cooperative-matrix-2 job targeting vulkan1.3 and a
\* cooperative-matrix-1 job and a scalar job targeting vulkan1.2.
C21_Witness ==
    /\ AfterProcessShaders
    /\ \E r \in Range(CompileRules(cmake.out)) :
          r.name = "matmul_f32_f16_cm2" /\ r.coopmat2
             /\ "--target-env=vulkan1.3" \in Range(r.flags)
    /\ \E r \in Range(CompileRules(cmake.out)) :
          r.name = "matmul_f32_f16_cm1" /\ ~r.coopmat2
             /\ "--target-env=vulkan1.2" \in Range(r.flags)
    /\ \E r \in Range(CompileRules(cmake.out)) :
          r.name = "add_f32_f32_f32" /\ ~r.coopmat2
             /\ "--target-env=vulkan1.2" \in Range(r.flags)

\* The tokens of an initializer, by the position they start at: each brace
\* and each identifier, with the character that follows it.
InitTokens(text) ==
    LET n == Len(text)
        isId == [i \in 1..n |-> CharAt(text, i) \in IdentChars]
        starts == {i \in 1..n : \/ CharAt(text, i) \in {"{", "}"}
                                \/ isId[i] /\ (i = 1 \/ ~isId[i - 1])}
        ends == {i \in 1..n : isId[i] /\ (i = n \/ ~isId[i + 1])}
        last(i) == IF isId[i]
                   THEN CHOOSE e \in ends : e >= i /\ \A f \in ends : f >= i => e <= f
                   ELSE i
    IN  [p \in starts |->
            LET e == last(p)
            IN  [ text |-> SubSeq(text, p, e),
                  next |-> IF e < n THEN CharAt(text, e + 1) ELSE "" ]]

\* The 2x2x2x2 table a C++ compiler reads from an initializer: ok tells
\* that the braces are well nested four deep, that every identifier and
\* every closing brace is followed by a comma (the last brace by the
\* semicolon) and that there are exactly 16 entries, one at each index;
\* entry gives the identifier at index << a, b, c, r >>.
OpTable(text) ==
    LET tokens == InitTokens(text)
        all == DOMAIN tokens
        opens == {k \in all : tokens[k].text = "{"}
        closes == {k \in all : tokens[k].text = "}"}
        entries == all \ (opens \cup closes)
        final == CHOOSE k \in all : \A x \in all : x <= k
        depth == [k \in all |-> Cardinality({j \in opens : j <= k})
                                  - Cardinality({j \in closes : j <= k})]
        enclosing(k, level) ==
            LET os == {o \in opens : o < k /\ depth[o] = level}
            IN  CHOOSE o \in os : \A x \in os : x <= o
        index(k, level) ==
            LET o == enclosing(k, level)
            IN  IF level = 4
                THEN Cardinality({e \in entries : o < e /\ e < k})
                ELSE Cardinality({c \in closes : o < c /\ c < k /\ depth[c] = level})
        indices == {0, 1} \X {0, 1} \X {0, 1} \X {0, 1}
        nested == /\ all /= {} /\ depth[final] = 0
                  /\ \A k \in all \ {final} : depth[k] >= 1 /\ depth[k] <= 4
                  /\ \A k \in entries : depth[k] = 4
        placed == {[index |-> << index(k, 1), index(k, 2), index(k, 3), index(k, 4) >>,
                    text |-> tokens[k].text, next |-> tokens[k].next] : k \in entries}
        ok == /\ nested
              /\ Cardinality(entries) = 16 /\ Cardinality(opens) = 15
              /\ {e.index : e \in placed} = indices
              /\ \A e \in placed : e.next = ","
              /\ \A k \in closes : tokens[k].next = (IF k = final THEN ";" ELSE ",")
    IN  [ ok |-> ok,
          entry |-> IF ok
                    THEN [i \in indices |-> (CHOOSE e \in placed : e.index = i).text]
                    ELSE << >> ]

\* The initializer of the table "<prefix><op><tail>[2][2][2][2] = ..." of a
\* definitions unit.
OpTableText(lines, prefix, op, tail) ==
    LET head == prefix \o op \o tail \o "[2][2][2][2] = "
        defs == SelectSeq(lines, LAMBDA l : string_starts_with(l, head))
    IN  IF Len(defs) = 1 THEN SubSeq(defs[1], Len(head) + 1, Len(defs[1])) ELSE ""

\* C22: in the definitions unit the initializer of each element-wise op
\* table (add, sub, mul, div, add_rms; _data and _len) is a well-nested
\* 2x2x2x2 list of exactly 16 entries, and the entry at index [a][b][c][r]
\* is the _data (_len) symbol of the job compiled with A_TYPE float16_t iff
\* a = 1, B_TYPE float16_t iff b = 1, D_TYPE float16_t iff c = 1 and
\* RTE16 = 1 iff r = 1, index 0 meaning float and RTE16 = 0.
C22_OpTableAxes ==
    AfterWriteEmbedFiles =>
        LET jobs == {r \in Range(CompileRules(cmake.out)) :
                        r.in_fname \in {"add.comp", "sub.comp", "mul.comp", "div.comp"}}
            type(i) == IF i = 1 THEN "float16_t" ELSE "float"
            kinds == { << "const void * ", "_data" >>, << "const uint64_t ", "_len" >> }
        IN  \A op \in Range(op_table_ops) : \A kind \in kinds :
                LET table == OpTable(OpTableText(files[target_cpp].data, kind[1], op, kind[2]))
                IN  /\ table.ok
                    /\ \A i \in DOMAIN table.entry :
                          \E r \in jobs :
                              /\ table.entry[i] = r.name \o kind[2]
                              /\ r.defines["A_TYPE"] = type(i[1])
                              /\ r.defines["B_TYPE"] = type(i[2])
                              /\ r.defines["D_TYPE"] = type(i[3])
                              /\ r.defines["RTE16"] = (IF i[4] = 1 THEN "1" ELSE "0")
                              /\ r.defines["ADD_RMS"] = (IF op = "add_rms" THEN "1" ELSE "0")

\* Definitions units whose add table holds, at [1][0][0][1], the job with an
\* f16 operand A, f32 operand B and result, and round-to-even, and at
\* [0][1][0][0] the job with an f16 operand B.
C22_Witness ==
    /\ AfterWriteEmbedFiles
    /\ LET table == OpTable(OpTableText(files[target_cpp].data, "const void * ", "add", "_data"))
       IN  /\ table.ok
           /\ table.entry[<< 1, 0, 0, 1 >>] = "add_f16_f32_f32_rte_data"
           /\ table.entry[<< 0, 1, 0, 0 >>] = "add_f32_f16_f32_data"
    /\ \E r \in Range(CompileRules(cmake.out)) :
          /\ r.name = "add_f16_f32_f32_rte"
          /\ r.defines["A_TYPE"] = "float16_t" /\ r.defines["B_TYPE"] = "float"
          /\ r.defines["RTE16"] = "1"

\* C23: the build graph of an embed-mode run has one embedding command; its
\* DEPENDS are the outputs of all the compile rules and its COMMAND carries
\* neither --target-cmake nor --no-embed.  Under an orchestrator that runs
\* the command only when its DEPENDS exist, the embedding invocation runs
\* only when every compile rule has produced its output, and it runs
\* without a build graph request and without no_embed.
C23_EmbedAfterCompile ==
    /\ Building =>
          LET embed == CustomCommands(BuildGraph)
              rules == CompileRules(BuildGraph)
          IN  /\ Len(embed) = 1
              /\ Range(embed[1].depends) = {rules[i].out_path : i \in 1..Len(rules)}
              /\ Len(rules) > 0
              /\ {"--target-cmake", "--no-embed"} \cap Range(embed[1].command) = {}
    /\ run = 2 =>
          /\ \A i \in 1..Len(BuildGraph) :
                BuildGraph[i].kind = "compile_shader" =>
                    SpvFile(BuildGraph[i].out_path).exists
          /\ ~args.target_cmake /\ ~args.no_embed /\ ~args.help

\* The embedding invocation, started by the orchestrator after the compile
\* rules, has written the two embedding units, with the byte array of the
\* first and the last job of the catalog.
C23_Witness ==
    /\ run = 2 /\ pc = "done" /\ exit_code = "EXIT_SUCCESS"
    /\ files[target_hpp].exists /\ files[target_cpp].exists
    /\ \A p \in BuildPaths : spv_disk.probe[p].exists
    /\ spv_disk.rest.exists
    /\ CompileRules(BuildGraph)[1].out_path \in BuildPaths
    /\ CompileRules(BuildGraph)[Len(CompileRules(BuildGraph))].out_path \in BuildPaths
    /\ "extern const unsigned char matmul_f32_f16_fp32_data[13];"
          \in Range(files[target_hpp].data)

\* C24 as claimed: in embed mode, whatever compiled outputs are on disk,
\* every symbol the lookup tables of the definitions unit refer to (the
\* entries of the element-wise op tables and of the arr_dmmv tables) is
\* declared in the declarations unit.
C24_Original ==
    (AfterWriteEmbedFiles /\ ReadsOutputs(args)) =>
        TableReferences(files[target_cpp].data)
            \subseteq Range(HppSymbols(files[target_hpp].data))

\* The failing input: an embedding run with the compiled output of
\* add_f32_f32_f32 missing, every other output present.  The add table
\* refers to add_f32_f32_f32_data, which no unit declares, and the run
\* ends with EXIT_SUCCESS.
C24_FailingInput ==
    /\ RanToEnd /\ ReadsOutputs(args)
    /\ ~SpvFile(PathJoin(output_dir, "add_f32_f32_f32.spv")).exists
    /\ spv_disk.rest.exists
    /\ "add_f32_f32_f32" \in TableReferences(files[target_cpp].data)
    /\ "add_f32_f32_f32" \notin Range(HppSymbols(files[target_hpp].data))
    /\ "add_f32_f32_f32" \notin Range(CppSymbols(files[target_cpp].data))
    /\ "add_f16_f32_f32" \in Range(HppSymbols(files[target_hpp].data))

\* The keys that a merge_maps(a, b) call finds in both maps with different
\* values.
MergeConflicts(a, b) == {k \in DOMAIN a \cap DOMAIN b : a[k] /= b[k]}

\* C25: in every merge_maps(a, b) call made while building the catalog,
\* under every combination of the capability gates, no key is in both a and
\* b with different values; the defines of the job are the same whichever
\* source takes precedence.
C25_NoMergeConflict ==
    AfterProcessShaders =>
        \A r \in Range(CompileRules(cmake.out)) :
            "merge_a" \in DOMAIN r =>
                /\ MergeConflicts(r.merge_a, r.merge_b) = {}
                /\ r.defines = r.merge_a @@ r.merge_b
                /\ r.defines = r.merge_b @@ r.merge_a

\* A catalog built with every gate in which a matrix-vector call gives
\* FLOAT_TYPE in both maps, with the same value, and a matrix-multiply call
\* and a flash-attention call merge maps without a common key.
C25_Witness ==
    /\ AfterProcessShaders
    /\ gates = AllGates
    /\ \E r \in Range(CompileRules(cmake.out)) :
          /\ r.name = "matmul_q4_0_q8_1_fp32"
          /\ r.merge_a /= EmptyMap /\ r.merge_b /= EmptyMap
          /\ DOMAIN r.merge_a \cap DOMAIN r.merge_b = {}
    /\ \E r \in Range(CompileRules(cmake.out)) :
          /\ r.name = "mul_mat_vec_q4_0_q8_1_f32"
          /\ r.merge_a["FLOAT_TYPE"] = "float" /\ r.merge_b["FLOAT_TYPE"] = "float"
    /\ \E r \in Range(CompileRules(cmake.out)) :
          /\ r.name = "flash_attn_f32_f16_f16_f16acc_cm2"
          /\ DOMAIN r.merge_a \cap DOMAIN r.merge_b = {}
    /\ Cardinality({r \in Range(CompileRules(cmake.out)) : "merge_a" \in DOMAIN r}) > 1000

\* C26: a failure of write_binary_file to open or to write an output unit
\* does not end the run and does not change the exit code.  Every run that
\* passes the option and directory checks exits with EXIT_SUCCESS; each
\* unit of its mode is attempted whatever happened to the units before it:
\* a writable unit is written, a unit whose open fails is as it was, a unit
\* whose write fails is left truncated by this run; the units outside the
\* mode are untouched.
C26_WriteFailureIgnored ==
    (/\ pc = "done" /\ ~threw
     /\ ~args.help /\ ~(args.no_embed /\ ~args.target_cmake) /\ input_dir \in dirs) =>
        /\ exit_code = "EXIT_SUCCESS"
        /\ \A u \in UnitsOfMode(args) :
              IF files0[u].writes = "ok"
              THEN files[u].exists /\ files[u].mtime = run /\ files[u].data /= << >>
              ELSE IF files0[u].writes = "open_fails"
              THEN files[u] = files0[u]
              ELSE files[u].exists /\ files[u].mtime = run /\ files[u].data = << >>
        /\ \A u \in UnitPaths \ UnitsOfMode(args) : files[u] = files0[u]

\* Runs that met a failure and went on: an embedding run whose declarations
\* unit could not be opened wrote the definitions unit and exited with
\* EXIT_SUCCESS.
C26_Witness ==
    /\ pc = "done" /\ exit_code = "EXIT_SUCCESS"
    /\ ~args.target_cmake /\ ~args.no_embed /\ ~args.help
    /\ files0[target_hpp].writes = "open_fails" /\ ~files[target_hpp].exists
    /\ files0[target_cpp].writes = "ok"
    /\ files[target_cpp].exists /\ files[target_cpp].mtime = run
    /\ Len(files[target_cpp].data) > 100

====
